---- MODULE Spec2Model ----
(***************************************************************************)
(* Quoting and order-lifecycle engine of the dYdX market-maker bot.        *)
(*                                                                         *)
(*   OrderManager    src/src/mm/order-manager.ts (and its later copy in    *)
(*                   src/unnamed/part_003, lines 890-1877)                 *)
(*   utils           src/src/mm/utils.ts                                   *)
(*   MarketMakerBot  the TypeScript listing in src/ORACLE_STRATEGY.md,     *)
(*                   lines 331-845                                         *)
(*                                                                         *)
(*   price services  BinancePriceService (src/unnamed/part_003, 1-369) and *)
(*                   CoinGeckoService (src/src/mm/coingecko-service.ts)    *)
(*                                                                         *)
(*   WashTradeBot    src/unnamed/part_006                                  *)
(*   MarketDataManager  src/src/mm/market-data.ts                          *)
(*   PositionManager    src/unnamed/part_004                               *)
(*                                                                         *)
(* Twelve specifications share the module and its variables:                *)
(*   SpecLadder   the pure ladder computation on drawn inputs              *)
(*   SpecOM       sequences of OrderManager calls by one awaiting caller   *)
(*   SpecPlace    placements of a two-level ladder on an empty manager     *)
(*   SpecBot      the bot: start() loops, ticks, pause/resume/stop         *)
(*   SpecOracle   shouldTriggerOracleStrategy over the cached price        *)
(*                services, with a clock                                   *)
(*   SpecRefresh  the cycles of one running loop, with a clock             *)
(*   SpecIntents  repeated placements around one mid price that may be     *)
(*                any JavaScript number                                    *)
(*   SpecWash     the cycles of the wash-trade bot                         *)
(*   SpecWashLoop start() and stop() of the wash-trade bot and the loops   *)
(*                they run                                                 *)
(*   SpecMarketData  getMarketData calls over the snapshot cache, with a   *)
(*                clock                                                    *)
(*   SpecPositions   fetchPositions and fetchBalances calls over the       *)
(*                PositionManager caches, with a clock                     *)
(*   SpecExpiry   the expiry height placeOrder gives a short-term order    *)
(***************************************************************************)
EXTENDS Integers, Sequences, FiniteSets, TLC

VARIABLES
    activeOrders,     \* OrderManager.activeOrders: clientId -> OrderInfo
    ordersByMarket,   \* OrderManager.ordersByMarket: marketId -> Set<clientId>
    omConfig,         \* the MarketMakerConfig the caller passes to the manager
    ev,               \* record of the last completed OrderManager call
    ladderIn,         \* SpecLadder: the drawn (midPrice, config)
    ladderOut,        \* SpecLadder: the computed ladder
    botState,         \* MarketMakerBot.state
    emergencyStop,    \* MarketMakerBot.emergencyStop
    pc,               \* where each start() invocation is
    refreshLog,       \* per start(): the manager calls of its current tick
    clock,            \* Date.now(), in ms
    priceCache,       \* provider -> the priceCache entry of the market
    oracleFeed,       \* provider -> the price its API answers with now
    lastOrderRefresh, \* MarketMakerBot.lastOrderRefresh
    cycle,            \* SpecRefresh: where runMarketMakingCycle is, its locals
    intents,          \* SpecIntents: the mid price and the orderRequests of
                      \* each placement made with it
    wash,             \* SpecWash: the WashTradeBot (config, currentPosition,
                      \* activeOrders) and the number of cycles it has run
    mdCache,          \* MarketDataManager: marketDataCache and lastUpdateTime
                      \* of the market, and when the snapshot was fetched
    pmCache,          \* PositionManager: positionsCache, balancesCache,
                      \* lastUpdateTime, and when the balances were fetched
    expiry            \* SpecExpiry: goodTilBlocks, the chain height and
                      \* the goodTilBlock placeOrder computed from them

omVars == <<activeOrders, ordersByMarket, omConfig, ev>>
ladderVars ==
    <<ladderIn, ladderOut, intents, wash, mdCache, pmCache, expiry>>
botVars == <<botState, emergencyStop, pc, refreshLog>>
oracleVars == <<clock, priceCache, oracleFeed>>
cycleVars == <<lastOrderRefresh, cycle>>
vars == <<activeOrders, ordersByMarket, omConfig, ev, ladderIn, ladderOut,
          botState, emergencyStop, pc, refreshLog, clock, priceCache,
          oracleFeed, lastOrderRefresh, cycle, intents, wash, mdCache,
          pmCache, expiry>>

----------------------------------------------------------------------------
(* Bounds *)

MaxClientId == 2      \* client ids are drawn from 0..MaxClientId
MaxMidTicks == 12     \* SpecLadder draws mid prices up to this many ticks
MaxStarts == 2        \* start() invocations that can be in progress at once
MaxBotClientId == 1   \* SpecBot draws client ids from 0..MaxBotClientId
MaxElapsed == 30000   \* SpecOracle lets this many ms go by
MaxMdElapsed == 3000  \* SpecMarketData runs the clock this many ms
MaxPmElapsed == 9000  \* SpecPositions runs the clock this many ms
MaxGoodTilBlocks == 5 \* SpecExpiry draws goodTilBlocks up to this
MaxWashCycles == 3    \* SpecWash runs this many wash-trade cycles
MaxRuns == 2          \* SpecIntents places this many times with one input
MaxCycleElapsed == 3000   \* SpecRefresh lets this many ms go by

----------------------------------------------------------------------------
(* Values *)

\* The market the bot quotes (config.marketId).
Markets == {"BTC-USD"}
Undefined == "undefined"
SHORT_TERM == "SHORT_TERM"
LONG_TERM == "LONG_TERM"
BUY == "BUY"
SELL == "SELL"

\* generateRandomClientId: a uniform draw from 0..MAX_UINT_32; the model draws
\* from 0..MaxClientId, so that equal draws happen as they can in the code.
ClientIds == 0..MaxClientId

----------------------------------------------------------------------------
(* utils.ts, in fixed point.  A price is an integer number of price units; *)
(* one tick (10^-decimals, the rounding step of roundPrice) is TickUnits   *)
(* units.  Percentages (spread, stepSize) are integers in units of 0.01 %. *)
(* A size is an integer number of size units; one size step (10^-4, the    *)
(* default of roundSize) is TickUnits units.                               *)

TickUnits == 10
PctDenom == 10000     \* (x / 100) with x in 0.01 % units is x / PctDenom

\* Math.round: the nearest integer, halves towards +infinity.
MathRound(num, den) == (2 * num + den) \div (2 * den)

\* roundPrice(price, decimals) with price = num/den price units.
roundPrice(num, den) == MathRound(num, den * TickUnits) * TickUnits

roundSize(num, den) == MathRound(num, den * TickUnits) * TickUnits

isValidPrice(price) == price > 0
isValidSize(size) == size > 0

----------------------------------------------------------------------------
(* OrderManager.calculateOrderPrices / calculateOrderSize *)

\* level i (0-based): offset = (i+1)*stepSize;
\* bid = roundPrice(mid * (1 - (spread/2 + offset)/100)), ask with +.
BidPrice(mid, cfg, i) ==
    roundPrice(mid * (2 * PctDenom - cfg.spread - 2 * (i + 1) * cfg.stepSize),
               2 * PctDenom)
AskPrice(mid, cfg, i) ==
    roundPrice(mid * (2 * PctDenom + cfg.spread + 2 * (i + 1) * cfg.stepSize),
               2 * PctDenom)

calculateOrderPrices(mid, cfg) ==
    [bidPrices |-> [i \in 1..cfg.priceSteps |-> BidPrice(mid, cfg, i - 1)],
     askPrices |-> [i \in 1..cfg.priceSteps |-> AskPrice(mid, cfg, i - 1)]]

\* sizeMultiplier = 1 + level * 0.1 (order-manager.ts; 0.01 in part_003)
SizeGrowthPct == 10
calculateOrderSize(baseSize, level) ==
    roundSize(baseSize * (100 + level * SizeGrowthPct), 100)

----------------------------------------------------------------------------
(* OrderManager: the tracking maps and the operations on them.             *)
(* om = [ao |-> activeOrders, obm |-> ordersByMarket].  A Map is a         *)
(* function whose DOMAIN is its key set.  The keys of activeOrders are     *)
(* clientId.toString(), and cancelAllOrdersForMarket reads them back with  *)
(* parseInt: on unsigned 32-bit integers the decimal string is injective   *)
(* and parseInt inverts it, so a key is modelled by the integer itself.    *)

MapPut(f, k, v) == [x \in (DOMAIN f) \cup {k} |-> IF x = k THEN v ELSE f[x]]
MapDel(f, k) == [x \in (DOMAIN f) \ {k} |-> f[x]]
MapDelAll(f, ks) == [x \in (DOMAIN f) \ ks |-> f[x]]
EmptyMap == [x \in {} |-> x]
MapGetSet(f, k) == IF k \in DOMAIN f THEN f[k] ELSE {}

Min(a, b) == IF a < b THEN a ELSE b

\* The exchange rejecting (or the height query failing): placeOrder's catch.
Rejected == -1

\* The OrderInfo placeOrder builds.  orderType is not a field of OrderInfo:
\* it records which exchange call placed the order (placeShortTermOrder or
\* the stateful placeOrder).  goodTilBlock and orderId, a random expiry and
\* the transaction hash, are left out: nothing in the manager branches on
\* them.
OrderInfoOf(marketId, req, cfg, clientId) ==
    [marketId |-> marketId, clientId |-> clientId, side |-> req.side,
     price |-> roundPrice(req.price, 1), size |-> roundSize(req.size, 1),
     orderType |-> cfg.orderType]

\* placeOrder: on success the order is stored under its clientId and the
\* clientId is added to the market's set; on failure nothing changes.
Track(om, marketId, info) ==
    [ao |-> MapPut(om.ao, info.clientId, info),
     obm |-> MapPut(om.obm, marketId,
                    MapGetSet(om.obm, marketId) \cup {info.clientId})]

placeOrder(om, marketId, req, cfg, out) ==
    IF out = Rejected
    THEN [om |-> om, info |-> <<>>]
    ELSE LET info == OrderInfoOf(marketId, req, cfg, out)
         IN [om |-> Track(om, marketId, info), info |-> <<info>>]

\* The order requests of placeOrdersAroundMidPrice: the first
\* min(priceSteps, maxOrders) bids, then as many asks, invalid ones dropped.
ValidRequest(r) == isValidPrice(r.price) /\ isValidSize(r.size)

OrderRequests(mid, cfg) ==
    LET p == calculateOrderPrices(mid, cfg)
        n == Min(cfg.priceSteps, cfg.maxOrders)
        bids == [i \in 1..n |->
                   [side |-> BUY, price |-> p.bidPrices[i],
                    size |-> calculateOrderSize(cfg.orderSize, i - 1)]]
        asks == [i \in 1..n |->
                   [side |-> SELL, price |-> p.askPrices[i],
                    size |-> calculateOrderSize(cfg.orderSize, i - 1)]]
    IN SelectSeq(bids, ValidRequest) \o SelectSeq(asks, ValidRequest)

\* const batchSize = config.orderConfig.batchSize || 1
BatchSizeOf(cfg) == IF cfg.batchSize = 0 THEN 1 ELSE cfg.batchSize
BatchOf(i, bs) == (i - 1) \div bs

\* The orders in which the placeOrder calls of one placement can settle:
\* request order when sequential; within a batch (Promise.allSettled) any
\* order, the batches one after the other.
CompletionOrders(n, bs) ==
    IF bs = 1
    THEN {[i \in 1..n |-> i]}
    ELSE {p \in [1..n -> 1..n] :
            /\ \A i, j \in 1..n : i # j => p[i] # p[j]
            /\ \A i, j \in 1..n : i < j => BatchOf(p[i], bs) <= BatchOf(p[j], bs)}

RECURSIVE Settle(_, _, _, _, _, _, _)
Settle(om, marketId, reqs, cfg, outs, order, k) ==
    IF k > Len(order)
    THEN om
    ELSE Settle(placeOrder(om, marketId, reqs[order[k]], cfg, outs[order[k]]).om,
                marketId, reqs, cfg, outs, order, k + 1)

RECURSIVE PlacedFrom(_, _, _, _, _)
PlacedFrom(marketId, reqs, cfg, outs, k) ==
    IF k > Len(reqs)
    THEN <<>>
    ELSE (IF outs[k] = Rejected
          THEN <<>>
          ELSE <<OrderInfoOf(marketId, reqs[k], cfg, outs[k])>>)
         \o PlacedFrom(marketId, reqs, cfg, outs, k + 1)

\* const batchDelay = config.orderConfig.batchDelay || 100
BatchDelayOf(cfg) == IF cfg.batchDelay = 0 THEN 100 ELSE cfg.batchDelay

\* What one placement does, as a sequence of events: "submit" (placeOrder is
\* called for request i), "settle" (that call returns) and "sleep" (ms
\* milliseconds).
Event(e, i, ms) == [e |-> e, i |-> i, ms |-> ms]

\* batchSize === 1: for (const request of orderRequests) await placeOrder.
\* placeOrder returns null when it fails, and the loop goes on.
RECURSIVE SequentialTraceAbortsOnFailure(_, _, _)
SequentialTraceAbortsOnFailure(n, outs, k) ==
    IF k > n
    THEN <<>>
    ELSE <<Event("submit", k, 0), Event("settle", k, 0)>>
         \o (IF outs[k] = Rejected
             THEN <<>>
             ELSE SequentialTraceAbortsOnFailure(n, outs, k + 1))
RECURSIVE SequentialTrace(_, _, _)
SequentialTrace(n, outs, k) ==
    IF k > n
    THEN <<>>
    ELSE <<Event("submit", k, 0), Event("settle", k, 0)>>
         \o SequentialTrace(n, outs, k + 1)

\* The sleep after batch b (1-based) of n requests in batches of bs:
\* if (i + batchSize < orderRequests.length && batchDelay > 0).
SleepAfterBatchNever(b, n, bs, cfg) == <<>>
SleepAfterBatch(b, n, bs, cfg) ==
    IF b * bs < n /\ BatchDelayOf(cfg) > 0
    THEN <<Event("sleep", 0, BatchDelayOf(cfg))>>
    ELSE <<>>

\* Batch b: batch.map(placeOrder) calls placeOrder for every request of the
\* slice, Promise.allSettled waits for all of them (they settle in the order
\* order gives), then the sleep.
RECURSIVE BatchedTrace(_, _, _, _, _)
BatchedTrace(n, bs, cfg, order, b) ==
    IF (b - 1) * bs >= n
    THEN <<>>
    ELSE LET first == (b - 1) * bs + 1
             last == Min(b * bs, n)
             InBatch(i) == first <= i /\ i <= last
         IN [k \in 1..(last - first + 1) |-> Event("submit", first + k - 1, 0)]
            \o [k \in 1..(last - first + 1) |->
                  Event("settle", SelectSeq(order, InBatch)[k], 0)]
            \o SleepAfterBatch(b, n, bs, cfg)
            \o BatchedTrace(n, bs, cfg, order, b + 1)

PlacementTrace(n, cfg, outs, order) ==
    IF BatchSizeOf(cfg) = 1
    THEN SequentialTrace(n, outs, 1)
    ELSE BatchedTrace(n, BatchSizeOf(cfg), cfg, order, 1)

\* The latestBlockHeight() calls of one placement.  placeOrder makes one for
\* a SHORT_TERM order unless it is handed a currentBlock, and
\* placeOrdersAroundMidPrice never hands it one (its currentBlock stays
\* undefined), so every submission of a SHORT_TERM order makes its own call.
IsSubmit(ev1) == ev1.e = "submit"
LatestBlockHeightCalls(trace, cfg) ==
    IF cfg.orderType = SHORT_TERM THEN SelectSeq(trace, IsSubmit) ELSE <<>>

\* The requests whose placeOrder call returns, in the order they return.
IsSettle(ev1) == ev1.e = "settle"
SettleOrder(trace) ==
    [k \in 1..Len(SelectSeq(trace, IsSettle)) |-> SelectSeq(trace, IsSettle)[k].i]

\* placeOrdersAroundMidPrice: outs[i] is the clientId drawn for request i, or
\* Rejected; order is the order in which the submissions settle.  Returns the
\* tracking maps, placedOrders (accepted orders, in request order) and the
\* events of the placement.
PlaceRequests(om, marketId, reqs, cfg, outs, order) ==
    LET trace == PlacementTrace(Len(reqs), cfg, outs, order)
    IN [om |-> Settle(om, marketId, reqs, cfg, outs, SettleOrder(trace), 1),
        placed |-> PlacedFrom(marketId, reqs, cfg, outs, 1),
        attempted |-> Len(reqs),
        trace |-> trace]

placeOrdersAroundMidPrice(om, marketId, mid, cfg, outs, order) ==
    PlaceRequests(om, marketId, OrderRequests(mid, cfg), cfg, outs, order)

----------------------------------------------------------------------------
(* Cancellation *)

CancelCall(kind, marketId, ids, ok) ==
    [kind |-> kind, marketId |-> marketId, ids |-> ids, ok |-> ok]

\* The SHORT_TERM branch: one batchCancelShortTermOrdersWithMarketId call
\* carrying every clientId of the market.  bulk is "ok", "rejected" (the
\* call throws) or "noHeight" (latestBlockHeight throws before the call).
CancelShortTerm(om, marketId, ids, bulk) ==
    IF bulk = "ok"
    THEN [om |-> [ao |-> MapDelAll(om.ao, ids),
                  obm |-> MapDel(om.obm, marketId)],
          result |-> TRUE,
          calls |-> {CancelCall("batchCancel", marketId, ids, TRUE)}]
    ELSE [om |-> om, result |-> FALSE,
          calls |-> IF bulk = "rejected"
                    THEN {CancelCall("batchCancel", marketId, ids, FALSE)}
                    ELSE {}]

\* The LONG_TERM branch: one cancelOrder per clientId, each in its own
\* try/catch; succ are the clientIds whose cancelOrder succeeds.  The expiry
\* handed to cancelOrder (the exchange's goodTilBlockTime, else the stored
\* goodTilBlock, else now + 60 s) only decides whether the exchange accepts
\* the cancel, which succ draws.
CancelLongTermKeepsOrders(om, marketId, ids, succ) ==
    [om |-> [ao |-> om.ao,
             obm |-> IF succ # {} THEN MapDel(om.obm, marketId) ELSE om.obm],
     result |-> (Cardinality(succ) = Cardinality(ids)),
     calls |-> {CancelCall("cancelOrder", marketId, {c}, c \in succ) : c \in ids}]
CancelLongTerm(om, marketId, ids, succ) ==
    [om |-> [ao |-> MapDelAll(om.ao, succ),
             obm |-> IF succ # {} THEN MapDel(om.obm, marketId) ELSE om.obm],
     result |-> (Cardinality(succ) = Cardinality(ids)),
     calls |-> {CancelCall("cancelOrder", marketId, {c}, c \in succ) : c \in ids}]

\* cancelAllOrdersForMarket(marketId, config?).
\*   cfgType  config?.orderType, or Undefined when no config is passed
\*   bulk     the outcome of the bulk cancel (SHORT_TERM branch)
\*   okIds    the clientIds whose cancelOrder succeeds (LONG_TERM branch)
cancelAllOrdersForMarket(om, marketId, cfgType, bulk, okIds) ==
    LET ids == MapGetSet(om.obm, marketId)
        orderType == IF cfgType = Undefined THEN LONG_TERM ELSE cfgType
    IN IF ids = {}
       THEN [om |-> om, result |-> TRUE, calls |-> {}]
       ELSE IF orderType = SHORT_TERM
       THEN CancelShortTerm(om, marketId, ids, bulk)
       ELSE CancelLongTerm(om, marketId, ids, ids \cap okIds)

\* cancelAllOrders(config?): cancelAllOrdersForMarket for every key of
\* ordersByMarket, awaited together.  Each call reads its market's clientIds
\* before its first await, removes only keys of activeOrders and its own
\* market's key, and never rejects, so the calls commute and are folded here
\* one market after the other.
RECURSIVE CancelMarkets(_, _, _, _, _)
CancelMarkets(om, ms, cfgType, bulk, okIds) ==
    IF ms = {}
    THEN [om |-> om, result |-> TRUE, calls |-> {}]
    ELSE LET m == CHOOSE x \in ms : TRUE
             one == cancelAllOrdersForMarket(om, m, cfgType, bulk[m], okIds[m])
             rest == CancelMarkets(one.om, ms \ {m}, cfgType, bulk, okIds)
         IN [om |-> rest.om,
             result |-> one.result /\ rest.result,
             calls |-> one.calls \cup rest.calls]

cancelAllOrders(om, cfgType, bulk, okIds) ==
    CancelMarkets(om, DOMAIN om.obm, cfgType, bulk, okIds)

----------------------------------------------------------------------------
(* Reconciliation *)

\* getActiveOrders(marketId?)
getActiveOrders(om, marketArg) ==
    IF marketArg = Undefined
    THEN {om.ao[c] : c \in DOMAIN om.ao}
    ELSE {om.ao[c] : c \in MapGetSet(om.obm, marketArg) \cap DOMAIN om.ao}

\* removeOrderFromTracking(clientId, marketId)
removeOrderFromTracking(om, clientId, marketId) ==
    [ao |-> MapDel(om.ao, clientId),
     obm |-> IF marketId \in DOMAIN om.obm
             THEN IF om.obm[marketId] \ {clientId} = {}
                  THEN MapDel(om.obm, marketId)
                  ELSE MapPut(om.obm, marketId, om.obm[marketId] \ {clientId})
             ELSE om.obm]

RECURSIVE RemoveAll(_, _)
RemoveAll(om, orders) ==
    IF orders = {}
    THEN om
    ELSE LET o == CHOOSE x \in orders : TRUE
         IN RemoveAll(removeOrderFromTracking(om, o.clientId, o.marketId),
                      orders \ {o})

\* The local orders syncOrdersWithExchange drops: those whose clientId is not
\* among the ids fetchCurrentOrders returned.
SyncDrops(local, fetched) == {o \in local : o.clientId \notin fetched}

\* syncOrdersWithExchange(marketId?): fetched is the set of clientIds of the
\* list fetchCurrentOrders returned, which is empty when the fetch failed
\* (fetchCurrentOrders catches the error and returns []).
syncOrdersWithExchange(om, marketArg, fetched) ==
    RemoveAll(om, SyncDrops(getActiveOrders(om, marketArg), fetched))

----------------------------------------------------------------------------
(* SpecOM: one caller makes OrderManager calls one after the other, each   *)
(* awaited before the next.  ev records the last call: its arguments, the  *)
(* tracking maps before it (pre) and what it returned.                     *)

OM == [ao |-> activeOrders, obm |-> ordersByMarket]

\* The mid prices handed to placeOrdersAroundMidPrice: 0, of which every
\* ladder price is invalid, and 1000 ticks; the configs drawn have a 2 %
\* spread and 1 % steps.
OMMidPrices == {0, 1000 * TickUnits}

\* config.oracleStrategy: enabled, provider (unset means "binance") and
\* oraclePriceThreshold in 0.01 % units; config.refreshInterval in ms.
OracleDisabled ==
    [enabled |-> FALSE, provider |-> Undefined, oraclePriceThreshold |-> 50]

ConfigsWithSteps(steps) ==
    [orderType : {SHORT_TERM, LONG_TERM}, batchSize : {1, 2},
     priceSteps : steps, maxOrders : {2}, spread : {200},
     stepSize : {100}, orderSize : {100}, batchDelay : {0},
     refreshInterval : {2000}, oracleStrategy : {OracleDisabled},
     maxPositionSize : {10}, riskParameters : {[maxDrawdown |-> 20]}]

\* performRiskChecks: what the PositionManager answers (the position size is
\* an absolute value), and the checks.  The drawdown test
\* (totalUnrealizedPnL / portfolioValue) * 100 < -maxDrawdown is made only
\* when portfolioValue > 0; the USDC balance must be at least 10.
MinUSDCBalance == 10

RiskInputs ==
    [currentPosition : {9, 10}, totalUnrealizedPnL : {-21, -20},
     portfolioValue : {0, 100}, usdcBalance : {9, 10}]

performRiskChecksAboveMaxOnly(in, cfg) ==
    IF in.currentPosition > cfg.maxPositionSize
    THEN FALSE
    ELSE IF /\ in.portfolioValue > 0
            /\ in.totalUnrealizedPnL * 100
                 < -cfg.riskParameters.maxDrawdown * in.portfolioValue
         THEN FALSE
         ELSE in.usdcBalance >= MinUSDCBalance
performRiskChecks(in, cfg) ==
    IF in.currentPosition >= cfg.maxPositionSize
    THEN FALSE
    ELSE IF /\ in.portfolioValue > 0
            /\ in.totalUnrealizedPnL * 100
                 < -cfg.riskParameters.maxDrawdown * in.portfolioValue
         THEN FALSE
         ELSE in.usdcBalance >= MinUSDCBalance

LadderIdle == [mid |-> 0, spread |-> 0, stepSize |-> 0, priceSteps |-> 0]
NoLadder == [done |-> FALSE, bidPrices |-> <<>>, askPrices |-> <<>>]
NoIntents == <<>>
NoWash == <<>>
NoExpiry == <<>>

\* MarketDataManager and PositionManager as constructed: empty caches,
\* lastUpdateTime 0.  fetchedAt is the clock at the fetch that filled the
\* cache (the code does not keep it).
MdCacheInit == [has |-> FALSE, data |-> 0, lastUpdate |-> 0, fetchedAt |-> 0]
PmCacheInit ==
    [positionsCache |-> <<>>, balancesCache |-> <<>>, lastUpdateTime |-> 0,
     balancesFetchedAt |-> 0]
CachesIdle == mdCache = MdCacheInit /\ pmCache = PmCacheInit

STOPPED == "STOPPED"
STARTING == "STARTING"
RUNNING == "RUNNING"
PAUSED == "PAUSED"
ERROR == "ERROR"
BotStates == {STOPPED, STARTING, RUNNING, PAUSED, ERROR}

Procs == 1..MaxStarts

\* The bot as its constructor leaves it, no start() or stop() in progress.
BotIdle ==
    /\ botState = STOPPED
    /\ emergencyStop = FALSE
    /\ pc = [p \in Procs |-> "idle"]
    /\ refreshLog = [p \in Procs |-> <<>>]

\* The price services before their first call, the clock at the start of the
\* process; a bot that has not run a cycle.
ClockStart == 100000
Providers == {"binance", "coingecko"}
NoEntry == [price |-> 0, timestamp |-> 0, set |-> FALSE]

OracleIdle ==
    /\ clock = ClockStart
    /\ priceCache = [pr \in Providers |-> NoEntry]
    /\ oracleFeed = [pr \in Providers |-> <<>>]

NoCycle == [pc |-> "idle", now |-> 0, config |-> Undefined]

CycleIdle ==
    /\ lastOrderRefresh = 0
    /\ cycle = NoCycle

Idle == [op |-> "idle"]

InitOM ==
    /\ activeOrders = EmptyMap
    /\ ordersByMarket = EmptyMap
    /\ omConfig \in ConfigsWithSteps({1})
    /\ ev = Idle
    /\ ladderIn = LadderIdle
    /\ ladderOut = NoLadder
    /\ intents = NoIntents
    /\ wash = NoWash
    /\ CachesIdle
    /\ expiry = NoExpiry
    /\ BotIdle
    /\ OracleIdle
    /\ CycleIdle

OMPlace ==
    /\ ev = Idle
    /\ \E m \in Markets, mid \in OMMidPrices :
         LET n == Len(OrderRequests(mid, omConfig))
         IN \E outs \in [1..n -> ClientIds \cup {Rejected}],
               order \in CompletionOrders(n, BatchSizeOf(omConfig)) :
              LET r == placeOrdersAroundMidPrice(OM, m, mid, omConfig, outs, order)
              IN /\ activeOrders' = r.om.ao
                 /\ ordersByMarket' = r.om.obm
                 /\ ev' = [op |-> "place", marketId |-> m, pre |-> OM,
                           attempted |-> r.attempted, placed |-> r.placed,
                           trace |-> r.trace,
                           rejected |-> Cardinality({i \in 1..n : outs[i] = Rejected}),
                           outs |-> outs]
                 /\ UNCHANGED <<omConfig, ladderVars, oracleVars, cycleVars, botVars>>

CfgTypes == {SHORT_TERM, LONG_TERM, Undefined}
BulkOutcomes == {"ok", "rejected", "noHeight"}

\* The outcomes the exchange can give a cancel of the clientIds ids: of the
\* bulk call on the SHORT_TERM branch, of each cancelOrder otherwise.
BulkDraws(cfgType) == IF cfgType = SHORT_TERM THEN BulkOutcomes ELSE {"ok"}
OkIdDraws(cfgType, ids) == IF cfgType = SHORT_TERM THEN {{}} ELSE SUBSET ids

OMCancelMarket ==
    /\ ev = Idle
    /\ \E m \in Markets, cfgType \in CfgTypes :
        \E bulk \in BulkDraws(cfgType),
           okIds \in OkIdDraws(cfgType, MapGetSet(ordersByMarket, m)) :
         LET r == cancelAllOrdersForMarket(OM, m, cfgType, bulk, okIds)
         IN /\ activeOrders' = r.om.ao
            /\ ordersByMarket' = r.om.obm
            /\ ev' = [op |-> "cancelMarket", marketId |-> m,
                      cfgType |-> cfgType, pre |-> OM, result |-> r.result,
                      calls |-> r.calls]
            /\ UNCHANGED <<omConfig, ladderVars, oracleVars, cycleVars, botVars>>

OMCancelAll ==
    /\ ev = Idle
    /\ \E cfgType \in CfgTypes :
        \E bulk \in [DOMAIN ordersByMarket -> BulkDraws(cfgType)],
           okIds \in {f \in [DOMAIN ordersByMarket -> SUBSET ClientIds] :
                       \A m \in DOMAIN ordersByMarket :
                          f[m] \in OkIdDraws(cfgType, ordersByMarket[m])} :
         LET r == cancelAllOrders(OM, cfgType, bulk, okIds)
         IN /\ activeOrders' = r.om.ao
            /\ ordersByMarket' = r.om.obm
            /\ ev' = [op |-> "cancelAll", by |-> "caller", cfgType |-> cfgType,
                      pre |-> OM, result |-> r.result, calls |-> r.calls]
            /\ UNCHANGED <<omConfig, ladderVars, oracleVars, cycleVars, botVars>>

\* open is the set of clientIds the exchange holds open for the account;
\* fetchCurrentOrders returns that list, or [] when the query fails.
fetchCurrentOrders(open, fetchOk) == IF fetchOk THEN open ELSE {}

OMSync ==
    /\ ev = Idle
    /\ \E marketArg \in Markets \cup {Undefined}, fetchOk \in BOOLEAN,
          open \in SUBSET ClientIds :
         LET fetched == fetchCurrentOrders(open, fetchOk)
             om2 == syncOrdersWithExchange(OM, marketArg, fetched)
         IN /\ activeOrders' = om2.ao
            /\ ordersByMarket' = om2.obm
            /\ ev' = [op |-> "sync", marketArg |-> marketArg, pre |-> OM,
                      fetchOk |-> fetchOk, open |-> open, fetched |-> fetched]
            /\ UNCHANGED <<omConfig, ladderVars, oracleVars, cycleVars, botVars>>

\* The caller takes the result of the call and goes on.
OMReturn ==
    /\ ev # Idle
    /\ ev' = Idle
    /\ UNCHANGED <<activeOrders, ordersByMarket, omConfig, ladderVars, oracleVars, cycleVars, botVars>>

NextOM == OMPlace \/ OMCancelMarket \/ OMCancelAll \/ OMSync \/ OMReturn

SpecOM == InitOM /\ [][NextOM]_vars

\* SpecPlace: placements of a two-level ladder (four requests) on a manager
\* that tracks nothing; orderConfig.batchDelay is unset (0) or 50 ms.
BatchDelays == {0, 50}

InitPlace ==
    /\ activeOrders = EmptyMap
    /\ ordersByMarket = EmptyMap
    /\ omConfig \in {[c EXCEPT !.batchDelay = d] :
                       c \in ConfigsWithSteps({2}), d \in BatchDelays}
    /\ ev = Idle
    /\ ladderIn = LadderIdle
    /\ ladderOut = NoLadder
    /\ intents = NoIntents
    /\ wash = NoWash
    /\ CachesIdle
    /\ expiry = NoExpiry
    /\ BotIdle
    /\ OracleIdle
    /\ CycleIdle

PlaceOnEmpty == activeOrders = EmptyMap /\ OMPlace

NextPlace == PlaceOnEmpty \/ OMReturn

SpecPlace == InitPlace /\ [][NextPlace]_vars

----------------------------------------------------------------------------
(* Claims about the OrderManager *)

Range(seq) == {seq[i] : i \in 1..Len(seq)}
PreIds(marketId) == MapGetSet(ev.pre.obm, marketId)
CfgTypeOf(cfgType) == IF cfgType = Undefined THEN LONG_TERM ELSE cfgType

\* C2 (as claimed): a placement with N valid requests on a symbol that tracks
\* nothing, of which the exchange rejects exactly one, returns N-1 orders and
\* leaves exactly those N-1 orders tracked for the symbol.
C2_OneRejectedTracksTheRest ==
    (ev.op = "place" /\ PreIds(ev.marketId) = {} /\ ev.attempted > 0
        /\ ev.rejected = 1)
    => /\ Len(ev.placed) = ev.attempted - 1
       /\ getActiveOrders(OM, ev.marketId) = Range(ev.placed)
       /\ Cardinality(getActiveOrders(OM, ev.marketId)) = ev.attempted - 1

\* The clientIds of the orders the manager tracks for a market before the
\* call: those in the market's set and those of the orders of the market in
\* the order map.
PreTracked(marketId) ==
    PreIds(marketId)
      \cup {c \in DOMAIN ev.pre.ao : ev.pre.ao[c].marketId = marketId}

\* C3 (as claimed): syncOrdersWithExchange removes from local tracking (the
\* order map and the market's set) exactly the tracked orders whose clientId
\* is absent from the exchange's open-order list, and leaves every other
\* tracked order as it was.
C3_SyncRemovesExactlyMissing ==
    ev.op = "sync" =>
      LET tracked == IF ev.marketArg = Undefined
                     THEN DOMAIN ev.pre.ao \cup UNION {PreIds(k) : k \in Markets}
                     ELSE PreTracked(ev.marketArg)
          missing == tracked \ ev.open
      IN /\ DOMAIN activeOrders = (DOMAIN ev.pre.ao) \ missing
         /\ \A c \in DOMAIN activeOrders : activeOrders[c] = ev.pre.ao[c]
         /\ \A k \in Markets :
               MapGetSet(ordersByMarket, k) = PreIds(k) \ missing

\* C4: when cancelAllOrdersForMarket returns, every clientId whose cancel the
\* exchange accepted is gone from the order map and from the market's set.
C4_CancelledIdsRemoved ==
    ev.op \in {"cancelMarket", "cancelAll"} =>
      \A call \in ev.calls : call.ok =>
         \A c \in call.ids :
            /\ c \notin DOMAIN activeOrders
            /\ c \notin MapGetSet(ordersByMarket, call.marketId)

C4_Witness ==
    /\ ev.op = "cancelMarket" /\ ~ev.result
    /\ \E call \in ev.calls : call.ok
    /\ \E call \in ev.calls : ~call.ok

\* C5 (as claimed): on the long-term branch cancelAllOrdersForMarket calls
\* cancelOrder for every order tracked for the market, whichever of the calls
\* fail, and returns true exactly when every one of the calls succeeded.
C5_LongTermAttemptsAll ==
    (ev.op = "cancelMarket" /\ CfgTypeOf(ev.cfgType) = LONG_TERM) =>
      /\ UNION {call.ids : call \in ev.calls} = PreTracked(ev.marketId)
      /\ \A call \in ev.calls : call.kind = "cancelOrder"
      /\ ev.result <=> (\A call \in ev.calls : call.ok)

\* C7 (as claimed): tracked orders have pairwise different clientIds, and an
\* accepted order never takes the clientId of an order that is tracked: each
\* order a placement returns adds an entry to the order map.
C7_ClientIdsNeverReused ==
    /\ \A o1, o2 \in getActiveOrders(OM, Undefined) :
          o1 # o2 => o1.clientId # o2.clientId
    /\ ev.op = "place" =>
          Cardinality(DOMAIN activeOrders) =
            Cardinality(DOMAIN ev.pre.ao) + Len(ev.placed)

----------------------------------------------------------------------------
(* SpecLadder: calculateOrderPrices on drawn inputs.  Mid prices run over  *)
(* every price unit up to MaxMidTicks ticks (prices on and between ticks)  *)
(* and one price of 1000 ticks; spread and stepSize are in 0.01 % units.   *)

LadderMids == (1..(MaxMidTicks * TickUnits)) \cup {1000 * TickUnits}
LadderConfigs ==
    [spread : {0, 10, 200}, stepSize : {1, 100}, priceSteps : {1, 2, 3}]

InitLadder ==
    /\ activeOrders = EmptyMap
    /\ ordersByMarket = EmptyMap
    /\ omConfig \in ConfigsWithSteps({1})
    /\ omConfig.orderType = LONG_TERM /\ omConfig.batchSize = 1
    /\ ev = Idle
    /\ \E mid \in LadderMids, cfg \in LadderConfigs :
          ladderIn = [mid |-> mid, spread |-> cfg.spread,
                      stepSize |-> cfg.stepSize, priceSteps |-> cfg.priceSteps]
    /\ ladderOut = NoLadder
    /\ intents = NoIntents
    /\ wash = NoWash
    /\ CachesIdle
    /\ expiry = NoExpiry
    /\ BotIdle
    /\ OracleIdle
    /\ CycleIdle

ComputeLadder ==
    /\ ~ladderOut.done
    /\ LET r == calculateOrderPrices(ladderIn.mid, ladderIn)
       IN ladderOut' = [done |-> TRUE, bidPrices |-> r.bidPrices,
                        askPrices |-> r.askPrices]
    /\ UNCHANGED <<activeOrders, ordersByMarket, omConfig, ev, ladderIn, intents,
                   wash, mdCache, pmCache, expiry, botVars, oracleVars, cycleVars>>

NextLadder == ComputeLadder

SpecLadder == InitLadder /\ [][NextLadder]_vars

\* C8 (as claimed): every bid of the ladder is strictly below the reference
\* price and every ask strictly above it, and from one level to the next the
\* bid strictly falls and the ask strictly rises.
C8_LadderStrictlyOrdered ==
    ladderOut.done =>
      /\ \A i \in 1..ladderIn.priceSteps :
            /\ ladderOut.bidPrices[i] < ladderIn.mid
            /\ ladderOut.askPrices[i] > ladderIn.mid
      /\ \A i, j \in 1..ladderIn.priceSteps : i < j =>
            /\ ladderOut.bidPrices[j] < ladderOut.bidPrices[i]
            /\ ladderOut.askPrices[j] > ladderOut.askPrices[i]

----------------------------------------------------------------------------
(* SpecBot: MarketMakerBot.  Up to MaxStarts invocations of start() are in *)
(* progress at a time; pause(), resume(), updateConfig() and stop() are    *)
(* one step each.  A step of start() is the code between two awaits, an    *)
(* OrderManager call taken whole, as in SpecOM.  pc[p] is where invocation *)
(* p of start() is waiting:                                                *)
(*   "idle"    not in progress                                             *)
(*   "init"    initialize(): state is STARTING, wallet and client pending  *)
(*   "initMd"  initialize(): managers created, first market data pending   *)
(*   "loop"    before the test of the while loop                           *)
(*   "md"      runMarketMakingCycle: getMarketData pending                 *)
(*   "risk"    runMarketMakingCycle: performRiskChecks pending             *)
(*   "sync"    refreshOrders: before syncOrdersWithExchange                *)
(*   "place"   refreshOrders: before placeOrdersAroundMidPrice             *)
(*   "sleep"   the sleep after the cycle (1 s) or after a caught error     *)
(* Whether refreshInterval has gone by since lastOrderRefresh is drawn.    *)

TickPcs == {"md", "risk", "sync", "place"}

\* The mid price getMarketData returns: it returns null unless midPrice > 0.
BotMidPrice == 1000 * TickUnits
BotMarket == CHOOSE m \in Markets : TRUE
BotClientIds == 0..MaxBotClientId

InitBot ==
    /\ activeOrders = EmptyMap
    /\ ordersByMarket = EmptyMap
    /\ omConfig \in ConfigsWithSteps({1})
    /\ omConfig.batchSize = 1
    /\ ev = Idle
    /\ ladderIn = LadderIdle
    /\ ladderOut = NoLadder
    /\ intents = NoIntents
    /\ wash = NoWash
    /\ CachesIdle
    /\ expiry = NoExpiry
    /\ BotIdle
    /\ OracleIdle
    /\ CycleIdle

\* start(): initialize() unless the state is RUNNING; initialize() sets
\* STARTING before its first await.
StartCall(p) ==
    /\ pc[p] = "idle"
    /\ IF botState # RUNNING
       THEN /\ botState' = STARTING
            /\ pc' = [pc EXCEPT ![p] = "init"]
       ELSE /\ botState' = botState
            /\ pc' = [pc EXCEPT ![p] = "loop"]
    /\ ev' = Idle
    /\ UNCHANGED <<activeOrders, ordersByMarket, omConfig, ladderVars, oracleVars, cycleVars,
                   emergencyStop, refreshLog>>

\* initialize(), up to the managers: a missing mnemonic or a failed connect
\* is caught (state ERROR, start() returns); otherwise a new OrderManager,
\* which tracks nothing, replaces the old one.
InitManagers(p) ==
    /\ pc[p] = "init"
    /\ \E ok \in BOOLEAN :
         IF ok
         THEN /\ activeOrders' = EmptyMap
              /\ ordersByMarket' = EmptyMap
              /\ pc' = [pc EXCEPT ![p] = "initMd"]
              /\ botState' = botState
         ELSE /\ botState' = ERROR
              /\ pc' = [pc EXCEPT ![p] = "idle"]
              /\ UNCHANGED <<activeOrders, ordersByMarket>>
    /\ ev' = Idle
    /\ UNCHANGED <<omConfig, ladderVars, oracleVars, cycleVars, emergencyStop, refreshLog>>

\* initialize(), the first market data: RUNNING with data, ERROR without.
InitFinish(p) ==
    /\ pc[p] = "initMd"
    /\ \E ok \in BOOLEAN :
         IF ok
         THEN /\ botState' = RUNNING
              /\ pc' = [pc EXCEPT ![p] = "loop"]
         ELSE /\ botState' = ERROR
              /\ pc' = [pc EXCEPT ![p] = "idle"]
    /\ ev' = Idle
    /\ UNCHANGED <<activeOrders, ordersByMarket, omConfig, ladderVars, oracleVars, cycleVars,
                   emergencyStop, refreshLog>>

\* while (state === RUNNING && !emergencyStop): a cycle begins, or start()
\* returns.
LoopCheck(p) ==
    /\ pc[p] = "loop"
    /\ IF botState = RUNNING /\ ~emergencyStop
       THEN /\ pc' = [pc EXCEPT ![p] = "md"]
            /\ refreshLog' = [refreshLog EXCEPT ![p] = <<>>]
       ELSE /\ pc' = [pc EXCEPT ![p] = "idle"]
            /\ refreshLog' = refreshLog
    /\ ev' = Idle
    /\ UNCHANGED <<activeOrders, ordersByMarket, omConfig, ladderVars, oracleVars, cycleVars,
                   botState, emergencyStop>>

\* Error messages are sequences of characters.
\* String.prototype.toLowerCase, on the letters the messages drawn hold.
UpperCase == <<"A", "E", "F", "I", "N", "S">>
LowerCase == <<"a", "e", "f", "i", "n", "s">>
toLowerCaseChar(c) ==
    IF \E i \in 1..Len(UpperCase) : UpperCase[i] = c
    THEN LowerCase[CHOOSE i \in 1..Len(UpperCase) : UpperCase[i] = c]
    ELSE c
toLowerCase(str) == [i \in 1..Len(str) |-> toLowerCaseChar(str[i])]

\* String.prototype.includes
includes(str, pat) ==
    \E i \in 1..(Len(str) - Len(pat) + 1) :
       SubSeq(str, i, i + Len(pat) - 1) = pat

\* shouldEmergencyStop: the denylist of substrings.
criticalErrors ==
    <<<<"i", "n", "s", "u", "f", "f", "i", "c", "i", "e", "n", "t", " ",
      "f", "u", "n", "d", "s">>,
      <<"a", "c", "c", "o", "u", "n", "t", " ", "s", "u", "s", "p", "e",
      "n", "d", "e", "d">>,
      <<"i", "n", "v", "a", "l", "i", "d", " ", "s", "i", "g", "n", "a",
      "t", "u", "r", "e">>,
      <<"n", "e", "t", "w", "o", "r", "k", " ", "e", "r", "r", "o", "r">>>>

\* An error a cycle throws: an object with a message, or without one
\* (error.message?.toLowerCase() || "" is then the empty string).
NoMessage == [hasMessage |-> FALSE, message |-> <<>>]
Message(str) == [hasMessage |-> TRUE, message |-> str]

shouldEmergencyStopCaseSensitive(error) ==
    LET errorMessage == IF error.hasMessage THEN error.message ELSE <<>>
    IN \E k \in 1..Len(criticalErrors) : includes(errorMessage, criticalErrors[k])
shouldEmergencyStop(error) ==
    LET errorMessage == IF error.hasMessage
                        THEN toLowerCase(error.message) ELSE <<>>
    IN \E k \in 1..Len(criticalErrors) : includes(errorMessage, criticalErrors[k])

\* The errors drawn for a cycle that throws.
TickErrors ==
    {NoMessage,
     Message(<<"N", "e", "t", "w", "o", "r", "k", " ", "E", "r", "r", "o", "r">>),
     Message(<<"t", "x", ":", " ", "I", "N", "S", "U", "F", "F", "I", "C", "I",
             "E", "N", "T", " ", "F", "U", "N", "D", "S">>),
     Message(<<"i", "n", "v", "a", "l", "i", "d", " ", "s", "i", "g", "n", "a",
             "t", "u", "r", "e">>),
     Message(<<"n", "e", "t", " ", "e", "r", "r", "o", "r">>),
     Message(<<"C", "a", "n", "n", "o", "t", " ", "r", "e", "a", "d", " ", "'",
             "a", "'", " ", "o", "f", " ", "u", "n", "d", "e", "f", "i", "n",
             "e", "d">>)}

NoError == [hasMessage |-> FALSE, message |-> <<"-">>]

TickMarketDataNoCatch(p) ==
    /\ pc[p] = "md"
    /\ \E out \in {"data", "none", "error"} :
         /\ pc' = [pc EXCEPT ![p] = IF out = "data" THEN "risk"
                                    ELSE IF out = "none" THEN "sleep" ELSE "idle"]
         /\ IF out = "error"
            THEN \E error \in TickErrors :
                   /\ ~shouldEmergencyStop(error)
                   /\ ev' = [op |-> "tickError", p |-> p, error |-> error,
                             stateBefore |-> botState]
            ELSE ev' = Idle
    /\ UNCHANGED <<activeOrders, ordersByMarket, omConfig, ladderVars, oracleVars, cycleVars,
                   botState, emergencyStop, refreshLog>>

\* The cycle up to the market data.  "data": go on to the risk checks;
\* "none": the cycle returns; "error": the cycle throws an error of which
\* shouldEmergencyStop is false, and the catch of start() sleeps 5 s.
TickMarketData(p) ==
    /\ pc[p] = "md"
    /\ \E out \in {"data", "none", "error"} :
         /\ pc' = [pc EXCEPT ![p] = IF out = "data" THEN "risk" ELSE "sleep"]
         /\ IF out = "error"
            THEN \E error \in TickErrors :
                   /\ ~shouldEmergencyStop(error)
                   /\ ev' = [op |-> "tickError", p |-> p, error |-> error,
                             stateBefore |-> botState]
            ELSE ev' = Idle
    /\ UNCHANGED <<activeOrders, ordersByMarket, omConfig, ladderVars, oracleVars, cycleVars,
                   botState, emergencyStop, refreshLog>>

\* performRiskChecks and the refresh test: refreshOrders is entered when the
\* checks pass and more than refreshInterval has gone by.  Its first step,
\* the call of cancelAllOrdersForMarket, is commented out; it sleeps 1 s.
TickRiskDenialEndsLoop(p) ==
    /\ pc[p] = "risk"
    /\ \E riskCheckPassed \in {performRiskChecks(in, omConfig) : in \in RiskInputs},
          shouldRefreshOrders \in BOOLEAN :
         /\ pc' = [pc EXCEPT ![p] = IF riskCheckPassed /\ shouldRefreshOrders
                                    THEN "sync" ELSE IF riskCheckPassed
                                    THEN "sleep" ELSE "idle"]
         /\ ev' = IF riskCheckPassed
                  THEN Idle
                  ELSE [op |-> "tickDenied", p |-> p, pre |-> OM,
                        stateBefore |-> botState]
    /\ UNCHANGED <<activeOrders, ordersByMarket, omConfig, ladderVars, oracleVars, cycleVars,
                   botState, emergencyStop, refreshLog>>
TickRisk(p) ==
    /\ pc[p] = "risk"
    /\ \E riskCheckPassed \in {performRiskChecks(in, omConfig) : in \in RiskInputs},
          shouldRefreshOrders \in BOOLEAN :
         /\ pc' = [pc EXCEPT ![p] = IF riskCheckPassed /\ shouldRefreshOrders
                                    THEN "sync" ELSE "sleep"]
         /\ ev' = IF riskCheckPassed
                  THEN Idle
                  ELSE [op |-> "tickDenied", p |-> p, pre |-> OM,
                        stateBefore |-> botState]
    /\ UNCHANGED <<activeOrders, ordersByMarket, omConfig, ladderVars, oracleVars, cycleVars,
                   botState, emergencyStop, refreshLog>>

\* refreshOrders: syncOrdersWithExchange(config.marketId).
TickSync(p) ==
    /\ pc[p] = "sync"
    /\ \E open \in SUBSET MapGetSet(ordersByMarket, BotMarket) :
         LET om2 == syncOrdersWithExchange(OM, BotMarket, open)
         IN /\ activeOrders' = om2.ao
            /\ ordersByMarket' = om2.obm
    /\ refreshLog' = [refreshLog EXCEPT ![p] = Append(@, "sync")]
    /\ pc' = [pc EXCEPT ![p] = "place"]
    /\ ev' = Idle
    /\ UNCHANGED <<omConfig, ladderVars, oracleVars, cycleVars, botState, emergencyStop>>

\* refreshOrders: placeOrdersAroundMidPrice(marketId, midPrice, config); the
\* cycle then updates the statistics and returns.
TickPlace(p) ==
    /\ pc[p] = "place"
    /\ LET n == Len(OrderRequests(BotMidPrice, omConfig))
       IN \E outs \in [1..n -> BotClientIds \cup {Rejected}],
             order \in CompletionOrders(n, BatchSizeOf(omConfig)) :
            LET r == placeOrdersAroundMidPrice(OM, BotMarket, BotMidPrice,
                                               omConfig, outs, order)
            IN /\ activeOrders' = r.om.ao
               /\ ordersByMarket' = r.om.obm
    /\ refreshLog' = [refreshLog EXCEPT ![p] = Append(@, "place")]
    /\ pc' = [pc EXCEPT ![p] = "sleep"]
    /\ ev' = Idle
    /\ UNCHANGED <<omConfig, ladderVars, oracleVars, cycleVars, botState, emergencyStop>>

Sleep(p) ==
    /\ pc[p] = "sleep"
    /\ pc' = [pc EXCEPT ![p] = "loop"]
    /\ ev' = Idle
    /\ UNCHANGED <<activeOrders, ordersByMarket, omConfig, ladderVars, oracleVars, cycleVars,
                   botState, emergencyStop, refreshLog>>

\* cancelAllOrders(config?) as the bot calls it, from stop() or from
\* emergencyStopBot (by); ev records the call and, for emergencyStopBot, the
\* start() invocation p that caught the error.
BotCancelAll(cfgType, by, p, error) ==
    \E bulk \in [DOMAIN ordersByMarket -> BulkDraws(cfgType)],
       okIds \in {f \in [DOMAIN ordersByMarket -> SUBSET ClientIds] :
                   \A m \in DOMAIN ordersByMarket :
                      f[m] \in OkIdDraws(cfgType, ordersByMarket[m])} :
      LET r == cancelAllOrders(OM, cfgType, bulk, okIds)
      IN /\ activeOrders' = r.om.ao
         /\ ordersByMarket' = r.om.obm
         /\ ev' = [op |-> "cancelAll", by |-> by, cfgType |-> cfgType,
                   pre |-> OM, result |-> r.result, calls |-> r.calls,
                   p |-> p, error |-> error]

\* The cycle throws an error of which shouldEmergencyStop is true:
\* emergencyStopBot sets emergencyStop and ERROR and calls
\* this.orderManager.cancelAllOrders() with no config; start() then leaves
\* its loop.
emergencyStopBot(p) ==
    /\ pc[p] = "md"
    /\ emergencyStop' = TRUE
    /\ botState' = ERROR
    /\ \E error \in TickErrors :
         /\ shouldEmergencyStop(error)
         /\ BotCancelAll(Undefined, "emergencyStopBot", p, error)
    /\ pc' = [pc EXCEPT ![p] = "idle"]
    /\ UNCHANGED <<omConfig, ladderVars, oracleVars, cycleVars, refreshLog>>

pause ==
    /\ botState = RUNNING
    /\ botState' = PAUSED
    /\ ev' = Idle
    /\ UNCHANGED <<activeOrders, ordersByMarket, omConfig, ladderVars, oracleVars, cycleVars,
                   emergencyStop, pc, refreshLog>>

resume ==
    /\ botState = PAUSED
    /\ botState' = RUNNING
    /\ ev' = Idle
    /\ UNCHANGED <<activeOrders, ordersByMarket, omConfig, ladderVars, oracleVars, cycleVars,
                   emergencyStop, pc, refreshLog>>

\* stop(): STOPPED, then cancelAllOrders(this.config).
stop ==
    /\ botState' = STOPPED
    /\ BotCancelAll(omConfig.orderType, "stop", 0, NoError)
    /\ UNCHANGED <<omConfig, ladderVars, oracleVars, cycleVars, emergencyStop, pc, refreshLog>>

\* updateConfig(newConfig) with another orderType.
updateConfig ==
    /\ \E t \in {SHORT_TERM, LONG_TERM} \ {omConfig.orderType} :
         omConfig' = [omConfig EXCEPT !.orderType = t]
    /\ ev' = Idle
    /\ UNCHANGED <<activeOrders, ordersByMarket, ladderVars, oracleVars, cycleVars, botVars>>

NextBot ==
    \/ \E p \in Procs : StartCall(p)
    \/ \E p \in Procs : InitManagers(p)
    \/ \E p \in Procs : InitFinish(p)
    \/ \E p \in Procs : LoopCheck(p)
    \/ \E p \in Procs : TickMarketData(p)
    \/ \E p \in Procs : TickRisk(p)
    \/ \E p \in Procs : TickSync(p)
    \/ \E p \in Procs : TickPlace(p)
    \/ \E p \in Procs : Sleep(p)
    \/ \E p \in Procs : emergencyStopBot(p)
    \/ pause
    \/ resume
    \/ stop
    \/ updateConfig

SpecBot == InitBot /\ [][NextBot]_vars

----------------------------------------------------------------------------
(* Claims about the bot *)

\* C1 (as claimed): in every refresh cycle a cancellation of the symbol's
\* tracked orders is attempted before the reconciliation, and the
\* reconciliation is done before an order of the cycle is submitted.
C1_CancelBeforeSyncBeforePlace ==
    \A p \in Procs : \A i \in 1..Len(refreshLog[p]) :
       /\ refreshLog[p][i] = "sync" =>
             \E j \in 1..(i - 1) : refreshLog[p][j] = "cancel"
       /\ refreshLog[p][i] = "place" =>
             \E j \in 1..(i - 1) : refreshLog[p][j] = "sync"

\* C6 (as claimed): an order placed as a short-term order is cancelled only
\* by a bulk cancel call, never by a per-order cancelOrder, whichever path
\* issues the cancellation.
C6_ShortTermCancelledInBulk ==
    ev.op \in {"cancelMarket", "cancelAll"} =>
      \A call \in ev.calls : \A c \in call.ids :
         (c \in DOMAIN ev.pre.ao /\ ev.pre.ao[c].orderType = SHORT_TERM)
            => call.kind = "batchCancel"

\* C9 (as claimed): the state changes only from STOPPED to STARTING, from
\* STARTING to RUNNING, between RUNNING and PAUSED, from RUNNING or PAUSED to
\* ERROR, and from any state to STOPPED.
C9_AllowedTransitions ==
    {<<STOPPED, STARTING>>, <<STARTING, RUNNING>>, <<RUNNING, PAUSED>>,
     <<PAUSED, RUNNING>>, <<RUNNING, ERROR>>, <<PAUSED, ERROR>>}
      \cup {<<s, STOPPED>> : s \in BotStates}
C9_OnlyAllowedTransitions ==
    [][botState' # botState => <<botState, botState'>> \in C9_AllowedTransitions]_vars

\* C10 (as claimed): at no time are two cycles of one bot in progress.
C10_NoOverlappingTicks ==
    Cardinality({p \in Procs : pc[p] \in TickPcs}) <= 1

\* The clientIds a cancelAllOrders call goes through: those of the sets of
\* the markets that are keys of ordersByMarket when it is called.
CancelAllIds == UNION {ev.pre.obm[k] : k \in DOMAIN ev.pre.obm}

\* C11 (as claimed): when stop() is done the state is STOPPED, whatever the
\* cancellation did, and the cancellation went through every order that was
\* tracked when stop() was called.
C11_StopDrainsTrackedOrders ==
    (ev.op = "cancelAll" /\ ev.by = "stop") =>
      /\ botState = STOPPED
      /\ DOMAIN ev.pre.ao \subseteq CancelAllIds

\* The denylist test as claimed: the message, case ignored, holds one of
\* the four substrings.
C12_IsCritical(error) ==
    /\ error.hasMessage
    /\ \E k \in 1..Len(criticalErrors) :
          includes(toLowerCase(error.message), criticalErrors[k])

C13_TickErrorsAreHandled ==
    /\ [](ev.op = "tickError" =>
            /\ pc[ev.p] = "sleep"
            /\ botState = ev.stateBefore)
    /\ []((ev.op = "cancelAll" /\ ev.by = "emergencyStopBot") =>
            /\ emergencyStop
            /\ botState = ERROR)
    /\ [][\A p \in Procs :
            /\ (pc[p] = "sleep" /\ pc'[p] # "sleep") => pc'[p] = "loop"
            /\ (pc[p] = "loop" /\ pc'[p] # "loop"
                  /\ botState = RUNNING /\ ~emergencyStop) => pc'[p] = "md"]_vars

C13_Witness ==
    /\ ev.op = "tickError"
    /\ ev.error.hasMessage
    /\ ev.stateBefore = RUNNING /\ botState = RUNNING
    /\ pc[ev.p] = "sleep"

----------------------------------------------------------------------------
(* SpecOracle: the price services and shouldTriggerOracleStrategy *)

\* A price or null: <<p>> or <<>>.
Null == <<>>
Some(p) == <<p>>
Abs(x) == IF x < 0 THEN -x ELSE x

\* BinancePriceService.CACHE_TTL = 5000, CoinGeckoService.CACHE_TTL = 30000.
CACHE_TTL(provider) == IF provider = "binance" THEN 5000 ELSE 30000

\* getPrice of either service: the cached price while the entry is younger
\* than CACHE_TTL; otherwise the API is asked, null comes back when it fails
\* or answers with no price or a price <= 0, and a good price is cached with
\* the time of the call.  fetched tells whether the API was asked.
getPriceIgnoringAge(provider, cache, feed, now) ==
    IF cache[provider].set
    THEN [price |-> Some(cache[provider].price), cache |-> cache,
          fetched |-> FALSE]
    ELSE IF feed[provider] = Null \/ feed[provider][1] <= 0
         THEN [price |-> Null, cache |-> cache, fetched |-> TRUE]
         ELSE [price |-> feed[provider],
               cache |-> [cache EXCEPT ![provider] =
                            [price |-> feed[provider][1], timestamp |-> now,
                             set |-> TRUE]],
               fetched |-> TRUE]
getPriceNeverCached(provider, cache, feed, now) ==
    IF FALSE
    THEN [price |-> Some(cache[provider].price), cache |-> cache,
          fetched |-> FALSE]
    ELSE IF feed[provider] = Null \/ feed[provider][1] <= 0
         THEN [price |-> Null, cache |-> cache, fetched |-> TRUE]
         ELSE [price |-> feed[provider],
               cache |-> [cache EXCEPT ![provider] =
                            [price |-> feed[provider][1], timestamp |-> now,
                             set |-> TRUE]],
               fetched |-> TRUE]
getPriceEvictingOnFailure(provider, cache, feed, now) ==
    IF cache[provider].set
       /\ now - cache[provider].timestamp < CACHE_TTL(provider)
    THEN [price |-> Some(cache[provider].price), cache |-> cache,
          fetched |-> FALSE]
    ELSE IF feed[provider] = Null \/ feed[provider][1] <= 0
         THEN [price |-> Null, cache |-> [cache EXCEPT ![provider] = NoEntry], fetched |-> TRUE]
         ELSE [price |-> feed[provider],
               cache |-> [cache EXCEPT ![provider] =
                            [price |-> feed[provider][1], timestamp |-> now,
                             set |-> TRUE]],
               fetched |-> TRUE]
getPrice(provider, cache, feed, now) ==
    IF cache[provider].set
       /\ now - cache[provider].timestamp < CACHE_TTL(provider)
    THEN [price |-> Some(cache[provider].price), cache |-> cache,
          fetched |-> FALSE]
    ELSE IF feed[provider] = Null \/ feed[provider][1] <= 0
         THEN [price |-> Null, cache |-> cache, fetched |-> TRUE]
         ELSE [price |-> feed[provider],
               cache |-> [cache EXCEPT ![provider] =
                            [price |-> feed[provider][1], timestamp |-> now,
                             set |-> TRUE]],
               fetched |-> TRUE]

\* priceDifferencePercentage = (priceDifference / oraclePrice) * 100, kept as
\* the fraction num / den.
Pct(num, den) == [num |-> num, den |-> den]
ZeroPct == Pct(0, 1)

NoTrigger ==
    [shouldTrigger |-> FALSE, oraclePrice |-> Null, priceDifference |-> 0,
     priceDifferencePercentage |-> ZeroPct]

\* priceDifferencePercentage >= oraclePriceThreshold, the threshold t in
\* 0.01 % units: d / o * 100 >= t / 100.
ExceedsThresholdStrictly(d, o, t) == d * PctDenom > t * o
ReachesThreshold(d, o, t) == d * PctDenom >= t * o

\* The valid-oracle branch of shouldTriggerOracleStrategy.
EvaluatedDroppingOracle(currentPrice, o, t) ==
    [shouldTrigger |-> ReachesThreshold(Abs(currentPrice - o), o, t),
     oraclePrice |-> IF ReachesThreshold(Abs(currentPrice - o), o, t)
                     THEN Some(o) ELSE Null,
     priceDifference |-> Abs(currentPrice - o),
     priceDifferencePercentage |-> Pct(Abs(currentPrice - o) * 100, o)]
Evaluated(currentPrice, o, t) ==
    [shouldTrigger |-> ReachesThreshold(Abs(currentPrice - o), o, t),
     oraclePrice |-> Some(o),
     priceDifference |-> Abs(currentPrice - o),
     priceDifferencePercentage |-> Pct(Abs(currentPrice - o) * 100, o)]

\* shouldTriggerOracleStrategy(marketId, currentPrice, config): the result and
\* the price caches after the call.  getPrice catches its own errors, so the
\* catch of this function has nothing to catch.
shouldTriggerOracleStrategy(cache, feed, now, currentPrice, cfg) ==
    IF ~cfg.oracleStrategy.enabled
    THEN [result |-> NoTrigger, cache |-> cache, fetched |-> FALSE]
    ELSE LET oracleProvider == IF cfg.oracleStrategy.provider = Undefined
                               THEN "binance"
                               ELSE cfg.oracleStrategy.provider
             g == getPrice(oracleProvider, cache, feed, now)
         IN IF g.price = Null \/ g.price[1] <= 0
            THEN [result |-> NoTrigger, cache |-> g.cache,
                  fetched |-> g.fetched]
            ELSE [result |-> Evaluated(currentPrice, g.price[1],
                                       cfg.oracleStrategy.oraclePriceThreshold),
                  cache |-> g.cache, fetched |-> g.fetched]

\* The answers of a provider's API: none, 0, a negative number, 1000 and
\* 1006; the local prices an evaluation is called with: 1000, 1002 and 1005
\* (0.5 % above 1000).
FeedValues ==
    {Null, Some(0), Some(-1000 * TickUnits), Some(1000 * TickUnits),
     Some(1006 * TickUnits)}
LocalPrices == {1000 * TickUnits, 1002 * TickUnits, 1005 * TickUnits}

OracleStrategies ==
    {OracleDisabled}
    \cup [enabled : {TRUE}, provider : {Undefined, "binance", "coingecko"},
          oraclePriceThreshold : {50}]

\* Time goes by in steps of 1, 4 or 25 seconds, for MaxElapsed ms in all.
TimeSteps == {1000, 4000, 25000}

InitOracle ==
    /\ activeOrders = EmptyMap
    /\ ordersByMarket = EmptyMap
    /\ omConfig \in {[c EXCEPT !.oracleStrategy = os] :
                       c \in ConfigsWithSteps({1}), os \in OracleStrategies}
    /\ omConfig.batchSize = 1
    /\ omConfig.orderType = LONG_TERM
    /\ ev = Idle
    /\ ladderIn = LadderIdle
    /\ ladderOut = NoLadder
    /\ intents = NoIntents
    /\ wash = NoWash
    /\ CachesIdle
    /\ expiry = NoExpiry
    /\ BotIdle
    /\ clock = ClockStart
    /\ priceCache = [pr \in Providers |-> NoEntry]
    /\ oracleFeed \in [Providers -> FeedValues]
    /\ CycleIdle

OracleEvaluate ==
    /\ ev = Idle
    /\ \E currentPrice \in LocalPrices :
         LET r == shouldTriggerOracleStrategy(priceCache, oracleFeed, clock,
                                              currentPrice, omConfig)
         IN /\ priceCache' = r.cache
            /\ ev' = [op |-> "evaluate", currentPrice |-> currentPrice,
                      result |-> r.result, cache |-> priceCache,
                      fetched |-> r.fetched]
    /\ UNCHANGED <<activeOrders, ordersByMarket, omConfig, ladderVars, botVars,
                   clock, oracleFeed, cycleVars>>

\* The provider's market moves, or its API starts or stops answering.
FeedChange ==
    /\ ev = Idle
    /\ \E pr \in Providers, v \in FeedValues :
         /\ v # oracleFeed[pr]
         /\ oracleFeed' = [oracleFeed EXCEPT ![pr] = v]
    /\ UNCHANGED <<activeOrders, ordersByMarket, omConfig, ev, ladderVars,
                   botVars, clock, priceCache, cycleVars>>

ClockAdvance(steps, limit) ==
    \E d \in steps :
       /\ clock + d <= ClockStart + limit
       /\ clock' = clock + d

OracleClock ==
    /\ ev = Idle
    /\ ClockAdvance(TimeSteps, MaxElapsed)
    /\ UNCHANGED <<activeOrders, ordersByMarket, omConfig, ev, ladderVars,
                   botVars, priceCache, oracleFeed, cycleVars>>

NextOracle == OracleEvaluate \/ FeedChange \/ OracleClock \/ OMReturn

SpecOracle == InitOracle /\ [][NextOracle]_vars

----------------------------------------------------------------------------
(* SpecRefresh: the cycles of the loop of one start(), bot RUNNING *)

\* getCurrentTimestamp() * 1000: the clock in whole seconds, as ms.
getCurrentTimestamp(c) == c \div 1000
NowOf(c) == getCurrentTimestamp(c) * 1000

\* The oracle strategy is on with Binance and a 0.5 % threshold; the oracle
\* providers answer with the local mid price or with a price 0.6 % above it.
RefreshStrategies ==
    {[enabled |-> TRUE, provider |-> "binance", oraclePriceThreshold |-> 50]}
RefreshFeeds == {Some(BotMidPrice), Some(1006 * TickUnits)}

InitRefresh ==
    /\ activeOrders = EmptyMap
    /\ ordersByMarket = EmptyMap
    /\ omConfig \in {[c EXCEPT !.oracleStrategy = os] :
                       c \in ConfigsWithSteps({1}), os \in RefreshStrategies}
    /\ omConfig.batchSize = 1
    /\ ev = Idle
    /\ ladderIn = LadderIdle
    /\ ladderOut = NoLadder
    /\ intents = NoIntents
    /\ wash = NoWash
    /\ CachesIdle
    /\ expiry = NoExpiry
    /\ botState = RUNNING
    /\ emergencyStop = FALSE
    /\ pc = [p \in Procs |-> "idle"]
    /\ refreshLog = [p \in Procs |-> <<>>]
    /\ clock = ClockStart
    /\ priceCache = [pr \in Providers |-> NoEntry]
    /\ \E v \in RefreshFeeds : oracleFeed = [pr \in Providers |-> v]
    /\ CycleIdle

\* runMarketMakingCycle: now is taken, getMarketData answers with a snapshot
\* (mid price BotMidPrice) or with null, and then the cycle returns.
\* cycle.config is this.config as this first step of the cycle reads it.
CycleMarketData ==
    /\ cycle.pc = "idle"
    /\ \E marketData \in BOOLEAN :
         cycle' = [pc |-> IF marketData THEN "risk" ELSE "idle",
                   now |-> NowOf(clock),
                   config |-> IF marketData THEN omConfig ELSE Undefined]
    /\ ev' = Idle
    /\ UNCHANGED <<activeOrders, ordersByMarket, omConfig, ladderVars, botVars,
                   oracleVars, lastOrderRefresh>>

\* performRiskChecks, then shouldRefreshOrders =
\* now - this.lastOrderRefresh > this.config.refreshInterval.
CycleRisk ==
    /\ cycle.pc = "risk"
    /\ \E in \in RiskInputs :
         IF performRiskChecks(in, omConfig)
         THEN LET shouldRefreshOrders ==
                      cycle.now - lastOrderRefresh > omConfig.refreshInterval
              IN /\ cycle' = IF shouldRefreshOrders
                           THEN [cycle EXCEPT !.pc = "refresh"]
                           ELSE [cycle EXCEPT !.pc = "idle",
                                              !.config = Undefined]
                 /\ ev' = [op |-> "refreshTest", now |-> cycle.now,
                           lastOrderRefresh |-> lastOrderRefresh,
                           shouldRefreshOrders |-> shouldRefreshOrders,
                           risk |-> in, config |-> omConfig,
                           configAtStart |-> cycle.config]
         ELSE /\ cycle' = [cycle EXCEPT !.pc = "idle", !.config = Undefined]
              /\ ev' = [op |-> "riskDenied", risk |-> in, config |-> omConfig,
                        configAtStart |-> cycle.config]
    /\ UNCHANGED <<activeOrders, ordersByMarket, omConfig, ladderVars, botVars,
                   oracleVars, lastOrderRefresh>>

\* refreshOrders(marketData): syncOrdersWithExchange, then
\* placeOrdersAroundMidPrice(marketId, marketData.midPrice, config); back in
\* the cycle, this.lastOrderRefresh = now.
CycleRefresh ==
    /\ cycle.pc = "refresh"
    /\ \E open \in SUBSET MapGetSet(ordersByMarket, BotMarket) :
         LET om2 == syncOrdersWithExchange(OM, BotMarket, open)
             midPrice == BotMidPrice
             n == Len(OrderRequests(midPrice, omConfig))
         IN \E outs \in [1..n -> BotClientIds \cup {Rejected}],
               order \in CompletionOrders(n, BatchSizeOf(omConfig)) :
              LET r == placeOrdersAroundMidPrice(om2, BotMarket, midPrice,
                                                 omConfig, outs, order)
              IN /\ activeOrders' = r.om.ao
                 /\ ordersByMarket' = r.om.obm
                 /\ ev' = [op |-> "refresh", localPrice |-> BotMidPrice,
                           midPrice |-> midPrice, placed |-> r.placed,
                           config |-> omConfig,
                           configAtStart |-> cycle.config]
    /\ lastOrderRefresh' = cycle.now
    /\ cycle' = [cycle EXCEPT !.pc = "idle", !.config = Undefined]
    /\ UNCHANGED <<omConfig, ladderVars, botVars, oracleVars>>

\* Time goes by, a second at a time, for MaxCycleElapsed ms in all.
CycleClock ==
    /\ ClockAdvance({1000}, MaxCycleElapsed)
    /\ ev' = Idle
    /\ UNCHANGED <<activeOrders, ordersByMarket, omConfig, ladderVars, botVars,
                   priceCache, oracleFeed, cycleVars>>

NextRefresh ==
    \/ CycleMarketData
    \/ CycleRisk
    \/ CycleRefresh
    \/ CycleClock
    \/ updateConfig

SpecRefresh == InitRefresh /\ [][NextRefresh]_vars

----------------------------------------------------------------------------
(* SpecIntents: the orderRequests of placeOrdersAroundMidPrice in the later  *)
(* copy of OrderManager (src/unnamed/part_003), for mid prices that are any  *)
(* JavaScript number                                                         *)

\* A JavaScript number: finite (value in price units), NaN, or an infinity
\* (value is its sign).
Finite(v) == [kind |-> "finite", value |-> v]
NaN == [kind |-> "NaN", value |-> 0]
PosInfinity == [kind |-> "Infinity", value |-> 1]
NegInfinity == [kind |-> "Infinity", value |-> -1]

\* x * (num / den) for a non-finite x and den > 0; Math.round and the
\* division of roundPrice leave NaN and the infinities as they are.
JsTimes(x, num) ==
    IF x.kind = "NaN" \/ num = 0
    THEN NaN
    ELSE IF num > 0 THEN x ELSE [x EXCEPT !.value = -x.value]

JsBidPrice(x, cfg, i) ==
    IF x.kind = "finite"
    THEN Finite(BidPrice(x.value, cfg, i))
    ELSE JsTimes(x, 2 * PctDenom - cfg.spread - 2 * (i + 1) * cfg.stepSize)
JsAskPrice(x, cfg, i) ==
    IF x.kind = "finite"
    THEN Finite(AskPrice(x.value, cfg, i))
    ELSE JsTimes(x, 2 * PctDenom + cfg.spread + 2 * (i + 1) * cfg.stepSize)

\* isValidPrice: price > 0 && price < Number.MAX_SAFE_INTEGER &&
\* !isNaN(price); the finite prices of the model are below MAX_SAFE_INTEGER.
JsIsValidPriceUnbounded(x) ==
    /\ x.kind \in {"finite", "Infinity"} /\ x.value > 0
    /\ x.kind # "NaN"
JsIsValidPrice(x) ==
    /\ x.kind \in {"finite", "Infinity"} /\ x.value > 0
    /\ x.kind = "finite" \/ (x.kind = "Infinity" /\ x.value < 0)
    /\ x.kind # "NaN"

JsValidRequest(r) == JsIsValidPrice(r.price) /\ isValidSize(r.size)
PlainRequest(r) == [side |-> r.side, price |-> r.price.value, size |-> r.size]

\* The requests as the two loops push them: bids, then asks.
JsOrderRequests(x, cfg) ==
    LET n == Min(cfg.priceSteps, cfg.maxOrders)
        bids == [i \in 1..n |->
                   [side |-> BUY, price |-> JsBidPrice(x, cfg, i - 1),
                    size |-> calculateOrderSize(cfg.orderSize, i - 1)]]
        asks == [i \in 1..n |->
                   [side |-> SELL, price |-> JsAskPrice(x, cfg, i - 1),
                    size |-> calculateOrderSize(cfg.orderSize, i - 1)]]
        valid == SelectSeq(bids, JsValidRequest) \o SelectSeq(asks, JsValidRequest)
    IN [k \in 1..Len(valid) |-> PlainRequest(valid[k])]

\* orderRequests.sort(() => Math.random() - 0.5): some permutation.
Shuffles(n) ==
    {f \in [1..n -> 1..n] : \A a, b \in 1..n : a # b => f[a] # f[b]}
Permute(seq, perm) == [k \in 1..Len(seq) |-> seq[perm[k]]]

\* The mid prices drawn: 0, -1000, 1000, NaN and the infinities; the configs
\* have no price step or one.
IntentMids ==
    {Finite(0), Finite(-1000 * TickUnits), Finite(1000 * TickUnits), NaN,
     PosInfinity, NegInfinity}

InitIntents ==
    /\ activeOrders = EmptyMap
    /\ ordersByMarket = EmptyMap
    /\ omConfig \in ConfigsWithSteps({0, 1})
    /\ ev = Idle
    /\ ladderIn = LadderIdle
    /\ ladderOut = NoLadder
    /\ \E x \in IntentMids : intents = [mid |-> x, runs |-> <<>>]
    /\ wash = NoWash
    /\ CachesIdle
    /\ expiry = NoExpiry
    /\ BotIdle
    /\ OracleIdle
    /\ CycleIdle

\* placeOrdersAroundMidPrice(marketId, midPrice, config), at most MaxRuns
\* times with the same arguments.
IntentsPlace ==
    /\ Len(intents.runs) < MaxRuns
    /\ LET sorted == JsOrderRequests(intents.mid, omConfig)
           n == Len(sorted)
       IN \E perm \in Shuffles(n),
             outs \in [1..n -> BotClientIds \cup {Rejected}],
             order \in CompletionOrders(n, BatchSizeOf(omConfig)) :
            LET orderRequests == Permute(sorted, perm)
                r == PlaceRequests(OM, BotMarket, orderRequests, omConfig,
                                   outs, order)
            IN /\ activeOrders' = r.om.ao
               /\ ordersByMarket' = r.om.obm
               /\ ev' = [op |-> "place", marketId |-> BotMarket, pre |-> OM,
                         attempted |-> r.attempted, placed |-> r.placed,
                         trace |-> r.trace,
                         rejected |-> Cardinality({i \in 1..n : outs[i] = Rejected}),
                         outs |-> outs]
               /\ intents' = [intents EXCEPT !.runs = Append(@, orderRequests)]
    /\ UNCHANGED <<omConfig, ladderIn, ladderOut, wash, mdCache, pmCache,
                   expiry, botVars, oracleVars, cycleVars>>

NextIntents == IntentsPlace

SpecIntents == InitIntents /\ [][NextIntents]_vars

----------------------------------------------------------------------------
(* SpecWash: WashTradeBot (src/unnamed/part_006), one executeWashTrade per   *)
(* turn of runTradingLoop.  Sizes are in units of the size rounding step.    *)

\* orderSize 0 or 5, maxPositionSize 10.
WashConfigs ==
    [orderSize : {0, 5}, riskParameters : {[maxPositionSize |-> 10]}]
WashPrices == {1000 * TickUnits, 1001 * TickUnits}
WashClientIds == {1, 2}

\* calculateTradeSize: roundSize(baseSize * (1 + v)) for a random v in
\* [-0.2, 0.2): every s that is the rounding of some x in
\* [0.8 * baseSize, 1.2 * baseSize).
calculateTradeSize(baseSize) ==
    {s \in 0..(2 * baseSize) :
        (baseSize = 0 /\ s = 0)
        \/ (baseSize > 0 /\ 10 * s - 5 < 12 * baseSize /\ 10 * s + 5 > 8 * baseSize)}

\* updatePositionAndVolume: the position part.
updatePositionAndVolume(position, side, size) ==
    IF side = BUY THEN position + size ELSE position - size

\* placeWashOrder(side, price, size).
\*   ref       what getCurrentMarketPrice returns (Null: no source answers)
\*   heightOk  latestBlockHeight() answers
\*   txOk      placeShortTermOrder answers
\* submitted lists the placeShortTermOrder calls made.
placeWashOrder(w, side, price, size, ref, heightOk, txOk, clientId) ==
    IF ~isValidSize(size) \/ ref = Null \/ ~heightOk
    THEN [wash |-> w, submitted |-> <<>>]
    ELSE [wash |-> IF txOk
                   THEN [w EXCEPT !.activeOrders = @ \cup {clientId},
                                  !.currentPosition =
                                      updatePositionAndVolume(@, side, size)]
                   ELSE w,
          submitted |-> <<[side |-> side, price |-> price, size |-> size]>>]

\* executeWashTrade with the two prices it fetched (Null: not available).
executeWashTradeSellingOnEqual(w, orderbookPrice, binancePrice, size, ref, heightOk, txOk, clientId) ==
    IF orderbookPrice = Null \/ binancePrice = Null
    THEN [wash |-> w, submitted |-> <<>>]
    ELSE IF orderbookPrice[1] >= binancePrice[1]
    THEN placeWashOrder(w, SELL, binancePrice[1], size, ref, heightOk, txOk,
                        clientId)
    ELSE IF orderbookPrice[1] < binancePrice[1]
    THEN placeWashOrder(w, BUY, binancePrice[1], size, ref, heightOk, txOk,
                        clientId)
    ELSE [wash |-> w, submitted |-> <<>>]
executeWashTrade(w, orderbookPrice, binancePrice, size, ref, heightOk, txOk, clientId) ==
    IF orderbookPrice = Null \/ binancePrice = Null
    THEN [wash |-> w, submitted |-> <<>>]
    ELSE IF orderbookPrice[1] > binancePrice[1]
    THEN placeWashOrder(w, SELL, binancePrice[1], size, ref, heightOk, txOk,
                        clientId)
    ELSE IF orderbookPrice[1] < binancePrice[1]
    THEN placeWashOrder(w, BUY, binancePrice[1], size, ref, heightOk, txOk,
                        clientId)
    ELSE [wash |-> w, submitted |-> <<>>]

InitWash ==
    /\ activeOrders = EmptyMap
    /\ ordersByMarket = EmptyMap
    /\ omConfig \in ConfigsWithSteps({2})
    /\ omConfig.orderType = SHORT_TERM /\ omConfig.batchSize = 1
    /\ ev = Idle
    /\ ladderIn = LadderIdle
    /\ ladderOut = NoLadder
    /\ intents = NoIntents
    /\ \E c \in WashConfigs :
          wash = [config |-> c, currentPosition |-> 0, activeOrders |-> {},
                  cycles |-> 0]
    /\ CachesIdle
    /\ expiry = NoExpiry
    /\ BotIdle
    /\ OracleIdle
    /\ CycleIdle

\* One turn of runTradingLoop: executeWashTrade.
WashCycle ==
    /\ wash.cycles < MaxWashCycles
    /\ \E orderbookPrice \in {Null} \cup {Some(p) : p \in WashPrices},
          binancePrice \in {Null} \cup {Some(p) : p \in WashPrices},
          size \in calculateTradeSize(wash.config.orderSize),
          ref \in {Null} \cup {Some(p) : p \in WashPrices},
          heightOk \in BOOLEAN, txOk \in BOOLEAN, clientId \in WashClientIds :
         LET r == executeWashTrade(wash, orderbookPrice, binancePrice, size,
                                   ref, heightOk, txOk, clientId)
         IN /\ wash' = [r.wash EXCEPT !.cycles = @ + 1]
            /\ ev' = [op |-> "washCycle", orderbookPrice |-> orderbookPrice,
                      binancePrice |-> binancePrice, size |-> size,
                      ref |-> ref, heightOk |-> heightOk,
                      submitted |-> r.submitted,
                      positionBefore |-> wash.currentPosition]
    /\ UNCHANGED <<activeOrders, ordersByMarket, omConfig, ladderIn, ladderOut,
                   intents, mdCache, pmCache, expiry, botVars, oracleVars, cycleVars>>

NextWash == WashCycle

SpecWash == InitWash /\ [][NextWash]_vars

----------------------------------------------------------------------------
(* SpecWashLoop: WashTradeBot.start(), stop() and runTradingLoop.  wash      *)
(* carries, besides the fields of SpecWash, state, isRunning and pc: where   *)
(* each start() invocation is ("idle": not called or returned, "init":       *)
(* awaiting testConnection, "loop": at the while test, "trade": in           *)
(* executeWashTrade, "sleep": in the sleep between trades).                  *)

WashLoopPcs == {"loop", "trade", "sleep"}

InitWashLoop ==
    /\ activeOrders = EmptyMap
    /\ ordersByMarket = EmptyMap
    /\ omConfig \in ConfigsWithSteps({2})
    /\ omConfig.orderType = SHORT_TERM /\ omConfig.batchSize = 1
    /\ ev = Idle
    /\ ladderIn = LadderIdle
    /\ ladderOut = NoLadder
    /\ intents = NoIntents
    /\ \E c \in WashConfigs :
          /\ c.orderSize > 0
          /\ wash = [config |-> c, currentPosition |-> 0, activeOrders |-> {},
                     cycles |-> 0, state |-> STOPPED, isRunning |-> FALSE,
                     pc |-> [p \in Procs |-> "idle"]]
    /\ CachesIdle
    /\ expiry = NoExpiry
    /\ BotIdle
    /\ OracleIdle
    /\ CycleIdle

WashUnchanged ==
    UNCHANGED <<omVars, ladderIn, ladderOut, intents, mdCache, pmCache, expiry,
                botVars, oracleVars, cycleVars>>

\* start(), up to its first await: it returns at once when the state is
\* RUNNING, and otherwise sets STARTING and isRunning.
WashStart(p) ==
    /\ wash.pc[p] = "idle"
    /\ wash.state # RUNNING
    /\ wash' = [wash EXCEPT !.state = STARTING, !.isRunning = TRUE,
                            !.pc[p] = "init"]
    /\ WashUnchanged

\* start(): testConnection has answered (it never throws); RUNNING, and
\* runTradingLoop is entered.
WashStarted(p) ==
    /\ wash.pc[p] = "init"
    /\ wash' = [wash EXCEPT !.state = RUNNING, !.pc[p] = "loop"]
    /\ WashUnchanged

\* while (this.isRunning && this.state === RUNNING)
WashLoopTest(p) ==
    /\ wash.pc[p] = "loop"
    /\ wash' = [wash EXCEPT !.pc[p] = IF wash.isRunning /\ wash.state = RUNNING
                                      THEN "trade" ELSE "idle"]
    /\ WashUnchanged

\* The body of the loop up to the sleep: executeWashTrade.
WashLoopTrade(p) ==
    /\ wash.pc[p] = "trade"
    /\ wash.cycles < MaxWashCycles
    /\ \E orderbookPrice \in {Null} \cup {Some(q) : q \in WashPrices},
          binancePrice \in {Null} \cup {Some(q) : q \in WashPrices},
          size \in calculateTradeSize(wash.config.orderSize),
          ref \in {Null} \cup {Some(q) : q \in WashPrices},
          heightOk \in BOOLEAN, txOk \in BOOLEAN, clientId \in WashClientIds :
         LET r == executeWashTrade(wash, orderbookPrice, binancePrice, size,
                                   ref, heightOk, txOk, clientId)
         IN wash' = [r.wash EXCEPT !.cycles = @ + 1, !.pc[p] = "sleep"]
    /\ WashUnchanged

WashLoopSleep(p) ==
    /\ wash.pc[p] = "sleep"
    /\ wash' = [wash EXCEPT !.pc[p] = "loop"]
    /\ WashUnchanged

\* stop(): isRunning false, STOPPED, then cancelAllOrders, which clears
\* activeOrders when the bulk cancel succeeds.
WashStop ==
    /\ \E ok \in BOOLEAN :
         wash' = [wash EXCEPT !.isRunning = FALSE, !.state = STOPPED,
                              !.activeOrders = IF ok THEN {} ELSE @]
    /\ WashUnchanged

NextWashLoop ==
    \/ \E p \in Procs : WashStart(p)
    \/ \E p \in Procs : WashStarted(p)
    \/ \E p \in Procs : WashLoopTest(p)
    \/ \E p \in Procs : WashLoopTrade(p)
    \/ \E p \in Procs : WashLoopSleep(p)
    \/ WashStop

SpecWashLoop == InitWashLoop /\ [][NextWashLoop]_vars

----------------------------------------------------------------------------
(* SpecMarketData: MarketDataManager.getMarketData for one market.          *)

MD_CACHE_TTL == 1000

\* The mid prices of the snapshots the exchange answers with.
MdFeeds == {1000 * TickUnits, 1001 * TickUnits}
MdTimeSteps == {500}

\* getMarketData(marketId, forceRefresh) at clock c.  feed is what the
\* exchange calls yield: Some(snapshot), or Null when there is no market, no
\* valid price, or a call throws (the function then returns null).
getMarketData(cache, forceRefresh, c, feed) ==
    LET lastUpdate == cache.lastUpdate
        now == getCurrentTimestamp(c) * 1000
    IN IF ~forceRefresh /\ cache.has /\ now - lastUpdate < MD_CACHE_TTL
       THEN [data |-> Some(cache.data), cache |-> cache, fetched |-> FALSE]
       ELSE IF feed = Null
       THEN [data |-> Null, cache |-> cache, fetched |-> TRUE]
       ELSE [data |-> feed,
             cache |-> [has |-> TRUE, data |-> feed[1], lastUpdate |-> now,
                        fetchedAt |-> c],
             fetched |-> TRUE]

InitMarketData ==
    /\ activeOrders = EmptyMap
    /\ ordersByMarket = EmptyMap
    /\ omConfig \in ConfigsWithSteps({1})
    /\ omConfig.orderType = SHORT_TERM /\ omConfig.batchSize = 1
    /\ ev = Idle
    /\ ladderIn = LadderIdle
    /\ ladderOut = NoLadder
    /\ intents = NoIntents
    /\ wash = NoWash
    /\ CachesIdle
    /\ expiry = NoExpiry
    /\ BotIdle
    /\ OracleIdle
    /\ CycleIdle

MdGet ==
    /\ \E forceRefresh \in BOOLEAN,
          feed \in {Null} \cup {Some(v) : v \in MdFeeds} :
         LET r == getMarketData(mdCache, forceRefresh, clock, feed)
         IN /\ mdCache' = r.cache
            /\ ev' = [op |-> "getMarketData", forceRefresh |-> forceRefresh,
                      at |-> clock, pre |-> mdCache, data |-> r.data,
                      fetched |-> r.fetched]
    /\ UNCHANGED <<activeOrders, ordersByMarket, omConfig, ladderIn, ladderOut,
                   intents, wash, pmCache, expiry, botVars, oracleVars, cycleVars>>

MdClock ==
    /\ ClockAdvance(MdTimeSteps, MaxMdElapsed)
    /\ UNCHANGED <<omVars, ladderVars, botVars, priceCache, oracleFeed,
                   cycleVars>>

NextMarketData == MdGet \/ MdClock

SpecMarketData == InitMarketData /\ [][NextMarketData]_vars

----------------------------------------------------------------------------
(* SpecPositions: PositionManager.fetchPositions and fetchBalances.         *)

PM_CACHE_TTL == 5000

\* What the indexer answers: it throws (ok FALSE), or it lists nothing
\* (Null), or it lists some positions (Some(v), v naming the answer).
PmResponses ==
    {[ok |-> FALSE, value |-> Null]}
    \cup {[ok |-> TRUE, value |-> x] : x \in {Null, Some(1), Some(2)}}
PmTimeSteps == {3000}

\* fetchPositions(forceRefresh) at clock c.
fetchPositions(pm, forceRefresh, c, response) ==
    LET now == c
    IN IF /\ ~forceRefresh
          /\ now - pm.lastUpdateTime < PM_CACHE_TTL
          /\ pm.positionsCache # Null
       THEN [result |-> pm.positionsCache, pm |-> pm, queried |-> FALSE]
       ELSE IF ~response.ok
       THEN [result |-> pm.positionsCache, pm |-> pm, queried |-> TRUE]
       ELSE [result |-> response.value,
             pm |-> [pm EXCEPT !.positionsCache = response.value,
                               !.lastUpdateTime = now],
             queried |-> TRUE]

\* fetchBalances(forceRefresh) at clock c; it leaves lastUpdateTime alone.
fetchBalances(pm, forceRefresh, c, response) ==
    LET now == c
    IN IF /\ ~forceRefresh
          /\ now - pm.lastUpdateTime < PM_CACHE_TTL
          /\ pm.balancesCache # Null
       THEN [result |-> pm.balancesCache, pm |-> pm, queried |-> FALSE]
       ELSE IF ~response.ok
       THEN [result |-> pm.balancesCache, pm |-> pm, queried |-> TRUE]
       ELSE [result |-> response.value,
             pm |-> [pm EXCEPT !.balancesCache = response.value,
                               !.balancesFetchedAt = now],
             queried |-> TRUE]

InitPositions ==
    /\ activeOrders = EmptyMap
    /\ ordersByMarket = EmptyMap
    /\ omConfig \in ConfigsWithSteps({1})
    /\ omConfig.orderType = SHORT_TERM /\ omConfig.batchSize = 1
    /\ ev = Idle
    /\ ladderIn = LadderIdle
    /\ ladderOut = NoLadder
    /\ intents = NoIntents
    /\ wash = NoWash
    /\ CachesIdle
    /\ expiry = NoExpiry
    /\ BotIdle
    /\ OracleIdle
    /\ CycleIdle

PmFetchPositions ==
    /\ \E forceRefresh \in BOOLEAN, response \in PmResponses :
         LET r == fetchPositions(pmCache, forceRefresh, clock, response)
         IN /\ pmCache' = r.pm
            /\ ev' = [op |-> "fetchPositions", forceRefresh |-> forceRefresh,
                      at |-> clock, pre |-> pmCache, result |-> r.result,
                      queried |-> r.queried]
    /\ UNCHANGED <<activeOrders, ordersByMarket, omConfig, ladderIn, ladderOut,
                   intents, wash, mdCache, expiry, botVars, oracleVars, cycleVars>>

PmFetchBalances ==
    /\ \E forceRefresh \in BOOLEAN, response \in PmResponses :
         LET r == fetchBalances(pmCache, forceRefresh, clock, response)
         IN /\ pmCache' = r.pm
            /\ ev' = [op |-> "fetchBalances", forceRefresh |-> forceRefresh,
                      at |-> clock, pre |-> pmCache, result |-> r.result,
                      queried |-> r.queried]
    /\ UNCHANGED <<activeOrders, ordersByMarket, omConfig, ladderIn, ladderOut,
                   intents, wash, mdCache, expiry, botVars, oracleVars, cycleVars>>

PmClock ==
    /\ ClockAdvance(PmTimeSteps, MaxPmElapsed)
    /\ UNCHANGED <<omVars, ladderVars, botVars, priceCache, oracleFeed,
                   cycleVars>>

NextPositions == PmFetchPositions \/ PmFetchBalances \/ PmClock

SpecPositions == InitPositions /\ [][NextPositions]_vars

----------------------------------------------------------------------------
(* SpecExpiry: the goodTilBlock placeOrder hands to placeShortTermOrder, in  *)
(* both copies of OrderManager.  Block counts are in halves of a block, so   *)
(* that goodTilBlocks / 2 is exact.                                          *)

\* Math.floor(Math.random() * span) for a span given in halves: every
\* integer floor(r * span) takes for some r in [0, 1).
RandomFloors(span2) ==
    IF span2 > 0
    THEN 0..(((span2 + 1) \div 2) - 1)
    ELSE (-((1 - span2) \div 2))..0

\* randomIntRange(min, max), in halves:
\* Math.floor(Math.random() * (max - min + 1)) + min.
randomIntRange(min2, max2) ==
    {2 * j + min2 : j \in RandomFloors(max2 - min2 + 2)}

\* config.orderConfig.goodTilBlocks || 20; 0 stands for a field left unset.
GoodTilBlocksOf(g) == IF g = 0 THEN 20 ELSE g

\* src/src/mm/order-manager.ts: currentBlock + randomIntRange(2, goodTilBlocks).
\* src/unnamed/part_003: blockHeight + randomIntRange(goodTilBlocks / 2,
\* goodTilBlocks).
GoodTilBlockDraws(copy, g, height) ==
    LET goodTilBlocks == GoodTilBlocksOf(g)
    IN IF copy = "order-manager.ts"
       THEN {2 * height + k2 : k2 \in randomIntRange(4, 2 * goodTilBlocks)}
       ELSE {2 * height + k2 :
               k2 \in randomIntRange(goodTilBlocks, 2 * goodTilBlocks)}

ExpiryHeights == {100, 101, 250}
ExpiryCopies == {"order-manager.ts", "part_003"}

InitExpiry ==
    /\ activeOrders = EmptyMap
    /\ ordersByMarket = EmptyMap
    /\ omConfig \in ConfigsWithSteps({1})
    /\ omConfig.orderType = SHORT_TERM /\ omConfig.batchSize = 1
    /\ ev = Idle
    /\ ladderIn = LadderIdle
    /\ ladderOut = NoLadder
    /\ intents = NoIntents
    /\ wash = NoWash
    /\ CachesIdle
    /\ \E g \in 0..MaxGoodTilBlocks, copy \in ExpiryCopies :
          expiry = [goodTilBlocks |-> g, copy |-> copy, done |-> FALSE,
                    height |-> 0, goodTilBlock2 |-> 0]
    /\ BotIdle
    /\ OracleIdle
    /\ CycleIdle

\* placeOrder for a SHORT_TERM order, up to the goodTilBlock it submits.
ExpiryPlace ==
    /\ ~expiry.done
    /\ \E height \in ExpiryHeights :
         \E gtb2 \in GoodTilBlockDraws(expiry.copy, expiry.goodTilBlocks, height) :
            expiry' = [expiry EXCEPT !.done = TRUE, !.height = height,
                                     !.goodTilBlock2 = gtb2]
    /\ UNCHANGED <<omVars, ladderIn, ladderOut, intents, wash, mdCache, pmCache,
                   botVars, oracleVars, cycleVars>>

NextExpiry == ExpiryPlace

SpecExpiry == InitExpiry /\ [][NextExpiry]_vars

----------------------------------------------------------------------------
\* Placement events.

SubmitsOf(trace, i) == {k \in 1..Len(trace) : trace[k] = Event("submit", i, 0)}
SettlesOf(trace, i) == {k \in 1..Len(trace) : trace[k] = Event("settle", i, 0)}

C15_ConfiguredDelay == IF omConfig.batchDelay = 0 THEN 100 ELSE omConfig.batchDelay

C15_BatchesStrictlySequential ==
    (ev.op = "place" /\ BatchSizeOf(omConfig) > 1) =>
        \A q \in 1..Len(ev.trace) :
            IsSubmit(ev.trace[q]) =>
                LET b == BatchOf(ev.trace[q].i, BatchSizeOf(omConfig))
                    prev == {i \in 1..ev.attempted :
                               BatchOf(i, BatchSizeOf(omConfig)) = b - 1}
                IN prev # {} =>
                     /\ \A i \in prev : \E k \in SettlesOf(ev.trace, i) : k < q
                     /\ \E d \in 1..(q - 1) :
                           /\ ev.trace[d].e = "sleep"
                           /\ ev.trace[d].ms >= C15_ConfiguredDelay
                           /\ \A i \in prev :
                                 \A k \in SettlesOf(ev.trace, i) : k < d

\* A placement of four requests in batches of two with batchDelay 50 whose
\* first batch settled in reverse order, one of its orders rejected.
C15_Witness ==
    /\ ev.op = "place"
    /\ BatchSizeOf(omConfig) = 2
    /\ omConfig.batchDelay = 50
    /\ ev.attempted = 4
    /\ ev.outs[1] = Rejected
    /\ \E k \in SettlesOf(ev.trace, 2) : \E l \in SettlesOf(ev.trace, 1) : k < l
    /\ SubmitsOf(ev.trace, 3) # {}

----------------------------------------------------------------------------
\* Oracle divergence.  An evaluation leaves the clock and the feeds as they
\* were, and ev.cache is the price cache it started with.

OracleProviderOf ==
    IF omConfig.oracleStrategy.provider = Undefined
    THEN "binance"
    ELSE omConfig.oracleStrategy.provider
CachedAge == clock - ev.cache[OracleProviderOf].timestamp
CacheFresh ==
    /\ ev.cache[OracleProviderOf].set
    /\ CachedAge < CACHE_TTL(OracleProviderOf)
\* The oracle reading of the evaluation: the cached one while fresh, else
\* the answer of the provider.
OracleReading ==
    IF CacheFresh
    THEN Some(ev.cache[OracleProviderOf].price)
    ELSE oracleFeed[OracleProviderOf]
OracleValid == OracleReading # Null /\ OracleReading[1] > 0
IsEvaluation == ev.op = "evaluate" /\ omConfig.oracleStrategy.enabled

C19_OverrideOnlyOnValidReading ==
    (ev.op = "evaluate" /\ ev.result.shouldTrigger) =>
        /\ ev.result.oraclePrice # Null
        /\ ev.result.oraclePrice[1] > 0
        /\ \/ /\ ev.cache[OracleProviderOf].set
              /\ CachedAge <= CACHE_TTL(OracleProviderOf)
              /\ ev.result.oraclePrice = Some(ev.cache[OracleProviderOf].price)
           \/ ev.result.oraclePrice = oracleFeed[OracleProviderOf]

\* An evaluation that found a stale cached price far enough from the local
\* price to trigger, and a provider that gives no positive price.
C19_Witness ==
    /\ IsEvaluation
    /\ ev.cache[OracleProviderOf].set
    /\ CachedAge >= CACHE_TTL(OracleProviderOf)
    /\ ReachesThreshold(Abs(ev.currentPrice - ev.cache[OracleProviderOf].price),
                        ev.cache[OracleProviderOf].price,
                        omConfig.oracleStrategy.oraclePriceThreshold)
    /\ ~OracleValid
    /\ ~ev.result.shouldTrigger

\* C20: with the oracle unavailable the evaluation does not trigger and
\* reports a difference of 0 %, and its result differs from every result of
\* an evaluation that had a valid oracle price and stayed below the
\* threshold, equal local and oracle prices included: only the former has
\* oraclePrice null.
C20_UnavailableIsDistinguishable ==
    IsEvaluation =>
        /\ ~OracleValid =>
              /\ ~ev.result.shouldTrigger
              /\ ev.result.priceDifferencePercentage.num = 0
              /\ ev.result.oraclePrice = Null
        /\ (OracleValid /\ ~ev.result.shouldTrigger) =>
              ev.result.oraclePrice # Null

\* An evaluation whose provider gave no answer while the cache held nothing
\* fresh.
C20_Witness ==
    /\ IsEvaluation
    /\ ~CacheFresh
    /\ oracleFeed[OracleProviderOf] = Null
    /\ ev.result = NoTrigger

----------------------------------------------------------------------------
\* Refresh.

\* C16 (as claimed): on a cycle that has a market snapshot and passes the
\* risk checks, the orders are refreshed if and only if the time since the
\* last refresh is at least refreshInterval, exactly refreshInterval included.
C16_RefreshIffIntervalElapsed ==
    ev.op = "refreshTest" =>
        (ev.shouldRefreshOrders
            <=> ev.now - ev.lastOrderRefresh >= omConfig.refreshInterval)

\* C17 (as claimed): a refresh places its orders around the price the oracle
\* evaluation of the local price selects: the oracle price when the strategy
\* triggers, the local price otherwise.
C17_RefreshQuotesMonitorPrice ==
    ev.op = "refresh" =>
        LET r == shouldTriggerOracleStrategy(priceCache, oracleFeed, clock,
                                             ev.localPrice, omConfig).result
        IN ev.midPrice = IF r.shouldTrigger
                         THEN r.oraclePrice[1]
                         ELSE ev.localPrice

----------------------------------------------------------------------------
\* Risk checks.

RiskChecked == ev.op \in {"refreshTest", "riskDenied"}
RiskAllowed == ev.op = "refreshTest"

C22_DenialSkipsRefreshOnly ==
    /\ [](ev.op = "tickDenied" =>
            /\ OM = ev.pre
            /\ refreshLog[ev.p] = <<>>
            /\ botState = ev.stateBefore
            /\ pc[ev.p] = "sleep")
    /\ [][\A p \in Procs :
            /\ (pc[p] = "sleep" /\ pc'[p] # "sleep") => pc'[p] = "loop"
            /\ (pc[p] = "loop" /\ pc'[p] # "loop"
                  /\ botState = RUNNING /\ ~emergencyStop) => pc'[p] = "md"
            /\ (pc[p] = "md" /\ pc'[p] \notin {"md", "sleep", "idle"})
                  => pc'[p] = "risk"
            /\ (pc[p] = "risk" /\ pc'[p] # "risk")
                  => pc'[p] \in {"sync", "sleep"}]_vars

\* A denial on a cycle of a RUNNING bot that tracks orders of an earlier
\* cycle.
C22_Witness ==
    /\ ev.op = "tickDenied"
    /\ ev.stateBefore = RUNNING /\ botState = RUNNING
    /\ MapGetSet(ordersByMarket, BotMarket) # {}
    /\ pc[ev.p] = "sleep"

\* C23 (as claimed): the steps of one cycle all work with the configuration
\* the cycle started with; an updateConfig made while the cycle is in
\* progress shows from the next cycle on.
C23_CycleSeesOneConfig ==
    ev.op \in {"refreshTest", "riskDenied", "refresh"} =>
        ev.config = ev.configAtStart

----------------------------------------------------------------------------
\* Price cache.

FeedValid ==
    /\ oracleFeed[OracleProviderOf] # Null
    /\ oracleFeed[OracleProviderOf][1] > 0

\* C24: a price cached at time t is served, with no call of the provider,
\* to every request before t + CACHE_TTL, and a request after t + CACHE_TTL
\* calls the provider.
C24_CacheServesWithinTTL ==
    (IsEvaluation /\ ev.cache[OracleProviderOf].set) =>
        /\ CachedAge < CACHE_TTL(OracleProviderOf) =>
              /\ ~ev.fetched
              /\ ev.result.oraclePrice = Some(ev.cache[OracleProviderOf].price)
        /\ CachedAge > CACHE_TTL(OracleProviderOf) => ev.fetched

\* A request of a Binance price cached 4 s before, on a feed that has moved
\* since.
C24_Witness ==
    /\ IsEvaluation
    /\ OracleProviderOf = "binance"
    /\ ev.cache["binance"].set
    /\ CachedAge = 4000
    /\ FeedValid
    /\ oracleFeed["binance"] # Some(ev.cache["binance"].price)
    /\ ~ev.fetched

----------------------------------------------------------------------------
\* Order intents.

\* C26 (as claimed): two computations of the order requests from the same
\* mid price and config give the same requests (sides, prices, sizes) in the
\* same order.
C26_IntentsAreDeterministic ==
    \A a, b \in DOMAIN intents.runs : intents.runs[a] = intents.runs[b]

Degenerate ==
    \/ intents.mid.kind # "finite"
    \/ intents.mid.value <= 0
    \/ omConfig.priceSteps = 0

----------------------------------------------------------------------------
\* Chain height.

\* C28 (as claimed): a placement of short-term orders asks for the chain
\* height at most once per batch, the orders of the batch sharing the answer.
C28_OneHeightQueryPerBatch ==
    (ev.op = "place" /\ omConfig.orderType = SHORT_TERM) =>
        LET calls == LatestBlockHeightCalls(ev.trace, omConfig)
            bs == BatchSizeOf(omConfig)
        IN \A b \in 1..ev.attempted :
              Cardinality({k \in 1..Len(calls) : BatchOf(calls[k].i, bs) = b}) <= 1

----------------------------------------------------------------------------
\* Wash trades.

WashPricesKnown ==
    ev.op = "washCycle" /\ ev.orderbookPrice # Null /\ ev.binancePrice # Null
WashSideOf ==
    IF ev.orderbookPrice[1] > ev.binancePrice[1] THEN SELL ELSE BUY
WashOrderGoesOut == isValidSize(ev.size) /\ ev.ref # Null /\ ev.heightOk

C30_PositionWithinLimit ==
    wash.cycles > 0 =>
        Abs(wash.currentPosition) <= wash.config.riskParameters.maxPositionSize

----------------------------------------------------------------------------
\* Tracking maps.

\* C31 (as claimed): after every OrderManager operation the two maps agree:
\* clientId c is in the set ordersByMarket keeps for market m exactly when
\* activeOrders holds an order with clientId c whose market is m.
C31_IndexAgreesWithOrderMap ==
    \A m \in Markets, c \in ClientIds :
        c \in MapGetSet(ordersByMarket, m) <=>
            (c \in DOMAIN activeOrders /\ activeOrders[c].marketId = m)

\* The clientIds whose cancellation the last cancelAllOrdersForMarket tried
\* and the exchange refused.
C32_FailedIds ==
    UNION {call.ids : call \in {x \in ev.calls : ~x.ok}}

\* C32 (as claimed): an order whose cancellation failed in
\* cancelAllOrdersForMarket stays in the set of its market, so the next
\* cancel for the market tries it again.
C32_FailedCancelStaysIndexed ==
    ev.op = "cancelMarket" =>
        C32_FailedIds \subseteq MapGetSet(ordersByMarket, ev.marketId)

\* C33 (as claimed): a sync whose open-order query failed removes no order
\* from the tracking.
C33_FailedFetchRemovesNothing ==
    (ev.op = "sync" /\ ~ev.fetchOk) => OM = ev.pre

----------------------------------------------------------------------------
\* Shutdown.

\* C34 (as claimed): when stop() has cancelled everything while a cycle was
\* about to place (its placeOrdersAroundMidPrice still in flight), the
\* tracking is still empty once that placement has finished.
C34_StopLeavesNothingTracked ==
    [][\A p \in Procs :
          (/\ ev.op = "cancelAll" /\ ev.by = "stop"
           /\ botState = STOPPED
           /\ activeOrders = EmptyMap
           /\ pc[p] = "place" /\ pc'[p] = "sleep")
          => activeOrders' = EmptyMap]_vars

----------------------------------------------------------------------------
\* The control loop.

\* C35 (as claimed): whenever the state is RUNNING, the loop of some start()
\* call is still active (so cycles go on running), after pause() and
\* resume() as well.
C35_RunningHasActiveLoop ==
    botState = RUNNING => \E p \in Procs : pc[p] # "idle"

----------------------------------------------------------------------------
\* Snapshot and balance caches.

\* C36 (as claimed): a request without forceRefresh made less than 1000 ms
\* after the cached snapshot was fetched is answered from the cache with no
\* exchange call, and one made 1000 ms or more after it fetches anew.
C36_SnapshotServedWithinTTL ==
    (ev.op = "getMarketData" /\ ~ev.forceRefresh /\ ev.pre.has) =>
        IF ev.at - ev.pre.fetchedAt < MD_CACHE_TTL
        THEN ~ev.fetched /\ ev.data = Some(ev.pre.data)
        ELSE ev.fetched

\* C39 (as claimed): a balance read made more than 5000 ms after the cached
\* balances were fetched queries the exchange.
C39_StaleBalancesAreRefetched ==
    (/\ ev.op = "fetchBalances"
     /\ ev.pre.balancesCache # Null
     /\ ev.at - ev.pre.balancesFetchedAt > PM_CACHE_TTL)
    => ev.queried

----------------------------------------------------------------------------
\* Expiry height.

\* C37 (as claimed): for every positive integer goodTilBlocks the expiry
\* height submitted with a short-term order is h + k for an integer k with
\* 1 <= k <= goodTilBlocks, h being the chain height used for the order.
C37_ExpiryWithinGoodTilBlocks ==
    (expiry.done /\ expiry.goodTilBlocks > 0) =>
        LET k2 == expiry.goodTilBlock2 - 2 * expiry.height
        IN /\ k2 % 2 = 0
           /\ 2 <= k2
           /\ k2 <= 2 * expiry.goodTilBlocks

----------------------------------------------------------------------------
\* Wash-trade loops.

\* C38 (as claimed): at most one trading loop of a WashTradeBot is active at
\* any time, however start() and stop() calls interleave.
C38_AtMostOneTradingLoop ==
    Cardinality({p \in Procs : wash.pc[p] \in WashLoopPcs}) <= 1

====
